---- MODULE Spec2Model ----
(***************************************************************************)
(* Model of the analysis orchestration core of Endgame                     *)
(* (src/src/components/ChessAnalysis.tsx): the game timeline (import,      *)
(* navigation, reset), the explanation generator, the live-evaluation      *)
(* engine session (mount, debounce, score listener, unmount), the          *)
(* move-classification pipeline that shares the engine worker with it,     *)
(* and the engine worker they talk to.                                     *)
(*                                                                         *)
(* Representation.  A FEN is the sequence of SAN moves that leads to the   *)
(* position from the initial position, so two FENs are equal exactly when  *)
(* they are the same sequence and the side to move is the parity of the    *)
(* length.  Scores are kept in hundredths of a pawn (the code's            *)
(* raw / 100 pawns is the integer raw here, the code's mate score of       *)
(* +-10 pawns is +-1000).  A JavaScript null / undefined number is the     *)
(* empty sequence and a present number n is <<n>>.                         *)
(***************************************************************************)
EXTENDS Integers, Sequences, FiniteSets, TLC

VARIABLES
    \* ---- React state of the component (lines 155-169)
    history,                \* FEN list P[0..N]
    moveHistory,            \* ChessMove list M[0..N-1]
    currentPosition,        \* navigation index
    fen,                    \* displayed position
    pgn,                    \* content of the PGN text area
    fenInput,               \* content of the FEN input (line 1147)
    importType,             \* the selected import tab (line 1148)
    gameImported,
    currentMoveExplanation,
    evaluation,             \* {score, mate, loading, error}
    mounted,                \* "rendered" until the effects of the first render
                            \* have run, then "mounted", then "unmounted"
    engineDepth,
    \* ---- fields on the worker handle (lines 185-187)
    currentFen,             \* worker.currentFen
    hasMateScore,           \* worker.hasMateScore
    \* ---- the closure of the registered handleKeyDown (lines 1274-1291)
    keyDown,                \* the moves of the render it was registered in
    \* ---- debounce closures (lines 291-308)
    timer,                  \* pending timer of the current debounced function
    orphans,                \* pending timers of earlier debounced functions
    \* ---- the engine worker and the message channel to the component
    engSearch,              \* the search the engine is running
    inbox,                  \* lines posted by the engine, not yet handled
    \* ---- the classification pipeline (lines 1154-1155, 1824-2062, 2117-2186)
    classifier,             \* the move classifyMove is at and its listener
    listeners,              \* the listeners of classifyMove registered on the worker
    classification,         \* the classification field of each ChessMove
    bestMove,               \* the bestMove field of each ChessMove
    classificationComplete,
    quick,                  \* the pre-computation chains of lines 2150-2186
    \* ---- history variables used to state the properties
    posted,                 \* the uci / setoption / isready / quit directives posted
    mateSeen,               \* mate lines handled since the target was issued
    sentSinceEval,          \* position/go pairs sent since the last evaluate call
    goSinceStop,            \* go directives sent since the last stop
    lastOp                  \* last timeline operation and the index it started from

vars == <<history, moveHistory, currentPosition, fen, pgn, gameImported,
          currentMoveExplanation, evaluation, engineDepth, currentFen,
          hasMateScore, timer, orphans, engSearch, inbox, mateSeen,
          sentSinceEval, goSinceStop, lastOp, classifier, listeners, classification,
          bestMove,
          classificationComplete, quick, fenInput, importType, keyDown,
          mounted, posted>>

pipelineVars == <<classifier, listeners, classification, bestMove,
                  classificationComplete, quick>>

timelineVars == <<history, moveHistory, currentPosition, fen, pgn, gameImported,
                  currentMoveExplanation, fenInput, importType, keyDown,
                  mounted, posted>>

\* the same without the list the pipeline writes
shownVars == <<history, currentPosition, fen, pgn, gameImported,
               currentMoveExplanation, fenInput, importType, keyDown,
               mounted, posted>>

----------------------------------------------------------------------------
\* Bounds of the model

\* longest descriptor list the PGN collaborator hands to an import
MaxDescs == 3
\* engine lines in flight to the component
MaxInbox == 1
\* pending timers left behind by earlier debounced functions
MaxOrphans == 1
MaxChains == 1
\* engine lines in flight to the component when the engine runs ahead of it
MaxAhead == 2

----------------------------------------------------------------------------
\* The rules collaborator (chess.js) and the PGN collaborator (pgn-parser)

\* new Chess().fen()
InitialFen == <<>>

\* worker.currentFen = null, and "no timer pending"
NoFen == <<"null">>

\* fenParts[1]: the side to move encoded in a FEN
Turn(f) == IF Len(f) % 2 = 0 THEN "w" ELSE "b"

\* a position without a legal move: White is mated after 1. f3 e5 2. g4 Qh4#
MatedFen == <<"f3", "e5", "g4", "Qh4#">>
\* and one in which Black is mated: 1. e4 e5 2. Qh5 Nc6 3. Bc4 Nf6 4. Qxf7#
BlackMatedFen == <<"e4", "e5", "Qh5", "Nc6", "Bc4", "Nf6", "Qxf7#">>
IsTerminal(f) == f \in {MatedFen, BlackMatedFen}

\* SAN moves replayGame.move() accepts, and one it rejects in every position
LegalSans == {"e4", "Nf3"}
IllegalSan == "Ke9"
\* a descriptor without a move (a variation, RAV)
NoMove == "-"

\* a position reached by an even number of moves the model does not spell
\* out, in which the moves of TacticalSans can be legal
Middlegame == <<"...", "...">>

\* SAN texts of moves that castle, capture, promote, fork, check or mate
TacticalSans == {"O-O", "O-O-O", "exd5", "Bxf7+", "e8=Q", "exd8=Q#",
                 "Nd5", "Nc7+", "Bb5+", "Qg2#", "Rd1", "Kf1"}

\* san.includes('x'), san.includes('='), san === 'O-O' || san === 'O-O-O'
\* (lines 609, 618, 619)
isCapture(san) == san \in {"exd5", "Bxf7+", "exd8=Q#", "Qxf7#"}
isPromotion(san) == san \in {"e8=Q", "exd8=Q#"}
isCastle(san) == san \in {"O-O", "O-O-O"}

\* game.inCheck() and game.isCheckmate(): the side to move is in check
\* (mated) exactly when the last move's SAN ends in + or # (in #)
inCheck(game) ==
    /\ game # <<>>
    /\ game[Len(game)] \in {"Bxf7+", "Nc7+", "Bb5+", "exd8=Q#", "Qg2#", "Qh4#",
                             "Qxf7#"}
isCheckmate(game) ==
    /\ game # <<>>
    /\ game[Len(game)] \in {"exd8=Q#", "Qg2#", "Qh4#", "Qxf7#"}

\* replayGame.move(san) succeeds: no move in a mated position, a tactical
\* move only from a middlegame, and no castling out of check
IsLegal(pos, san) ==
    /\ ~isCheckmate(pos)
    /\ \/ san \in LegalSans
       \/ /\ san \in TacticalSans
          /\ Len(pos) >= Len(Middlegame)
          /\ SubSeq(pos, 1, Len(Middlegame)) = Middlegame
          /\ isCastle(san) => ~inCheck(pos)

\* replayGame.fen() after a successful replayGame.move(san)
ApplyMove(pos, san) == Append(pos, san)

\* moveObj.from / moveObj.to of a successful move (the squares of the
\* tactical moves are not told apart)
MoveFrom(san) == IF san = "e4" THEN "e2" ELSE IF san = "Nf3" THEN "g1" ELSE "--"
MoveTo(san) == IF san = "e4" THEN "e4" ELSE IF san = "Nf3" THEN "f3" ELSE "--"

\* getColorName(game): the colour opposite to the side to move of `game`
getColorName(game) == IF Turn(game) = "w" THEN "Black" ELSE "White"

\* getPieceType(san)
getPieceType(san) ==
    IF isCastle(san) THEN "K"
    ELSE IF san \in {"Nf3", "Nd5", "Nc7+", "Nc6", "Nf6"} THEN "N"
    ELSE IF san \in {"Bxf7+", "Bb5+", "Bc4"} THEN "B"
    ELSE IF san = "Rd1" THEN "R"
    ELSE IF san \in {"Qg2#", "Qh4#", "Qh5", "Qxf7#"} THEN "Q"
    ELSE IF san \in {"Ke9", "Kf1"} THEN "K"
    ELSE "P"

\* calculateMaterial (lines 699-727) in quarter pawns: the starting material,
\* less a pawn for every capture of the other side, plus a queen for a pawn
\* for every promotion
RECURSIVE calculateMaterial(_)
calculateMaterial(game) ==
    IF game = <<>>
    THEN [white |-> 158, black |-> 158]
    ELSE LET fromGame == SubSeq(game, 1, Len(game) - 1)
             san == game[Len(game)]
             before == calculateMaterial(fromGame)
             taken == IF isCapture(san) THEN 4 ELSE 0
             added == IF isPromotion(san) THEN 32 ELSE 0
         IN IF Turn(fromGame) = "w"
            THEN [white |-> before.white + added, black |-> before.black - taken]
            ELSE [white |-> before.white - taken, black |-> before.black + added]

\* calculateMaterialDifference (lines 729-756): the net swing and its winner
calculateMaterialDifference(before, after) ==
    LET netDiff == (after.white - after.black) - (before.white - before.black)
    IN [value |-> netDiff,
        winner |-> IF netDiff > 0 THEN "white"
                   ELSE IF netDiff < 0 THEN "black" ELSE ""]

\* checkForFork(game) (lines 838-885): a knight of either side attacks two
\* valuable pieces; the knight of Nd5 does until exd5 takes it
checkForFork(game) ==
    \E i \in DOMAIN game :
        \/ game[i] = "Nc7+"
        \/ game[i] = "Nd5" /\ \A j \in i + 1 .. Len(game) : game[j] # "exd5"

\* checkForPin, checkForSkewer, checkForDiscoveredAttack (lines 886-903)
checkForPin(game) == FALSE
checkForSkewer(game) == FALSE
checkForDiscoveredAttack(fromGame, toGame) == FALSE

\* analyzeMoveAndGenerateExplanation (lines 598-684): the text by its fixed
\* part and the side names it carries (the captured and the promoted piece,
\* the material value and the open/safer wording are left out)
analyzeMoveAndGenerateExplanationMutCheckFirst(fromGame, toGame, san) ==
    LET materialDiff == calculateMaterialDifference(calculateMaterial(fromGame),
                                                    calculateMaterial(toGame))
    IN IF isCheckmate(toGame) THEN <<"Checkmate! The game is over.">>
       ELSE IF inCheck(toGame)
       THEN <<getColorName(fromGame), "gives check to the", getColorName(toGame), "king">>
       ELSE IF isPromotion(san) THEN <<"Pawn promotion!", getColorName(fromGame), "promotes">>
       ELSE IF isCastle(san)
       THEN <<getColorName(fromGame),
              IF san = "O-O" THEN "castles kingside" ELSE "castles queenside">>
       ELSE IF materialDiff.winner # ""
       THEN <<IF materialDiff.winner = "white" THEN "White" ELSE "Black",
              "wins material!">>
       ELSE IF checkForFork(toGame) THEN <<getColorName(fromGame), "creates a fork!">>
       ELSE IF isCapture(san) THEN <<getColorName(fromGame), "captures">>
       ELSE <<getColorName(fromGame), getPieceType(san)>>
analyzeMoveAndGenerateExplanation(fromGame, toGame, san) ==
    LET materialDiff == calculateMaterialDifference(calculateMaterial(fromGame),
                                                    calculateMaterial(toGame))
    IN IF isCheckmate(toGame) THEN <<"Checkmate! The game is over.">>
       ELSE IF isPromotion(san) THEN <<"Pawn promotion!", getColorName(fromGame), "promotes">>
       ELSE IF isCastle(san)
       THEN <<getColorName(fromGame),
              IF san = "O-O" THEN "castles kingside" ELSE "castles queenside">>
       ELSE IF materialDiff.winner # ""
       THEN <<IF materialDiff.winner = "white" THEN "White" ELSE "Black",
              "wins material!">>
       ELSE IF checkForFork(toGame) THEN <<getColorName(fromGame), "creates a fork!">>
       ELSE IF checkForPin(toGame) THEN <<getColorName(fromGame), "creates a pin!">>
       ELSE IF checkForSkewer(toGame) THEN <<getColorName(fromGame), "creates a skewer!">>
       ELSE IF checkForDiscoveredAttack(fromGame, toGame)
       THEN <<getColorName(fromGame), "launches a discovered attack!">>
       ELSE IF isCapture(san) THEN <<getColorName(fromGame), "captures">>
       ELSE IF inCheck(toGame)
       THEN <<getColorName(fromGame), "gives check to the", getColorName(toGame), "king">>
       ELSE <<getColorName(fromGame), getPieceType(san)>>

\* a move descriptor {move, comments}
Comments == {<<>>, <<"comment">>}
Descriptors == [move : LegalSans \cup {IllegalSan, NoMove}, comments : Comments]

\* contents of the PGN text area, by what pgnParser.parse makes of them:
\* "throws" (a syntax error), "nogames" (an empty result) or one game
BadPgns == {[kind |-> "throws", moves |-> <<>>], [kind |-> "nogames", moves |-> <<>>]}
EmptyPgn == [kind |-> "empty", moves |-> <<>>]
GamePgn(ds) == [kind |-> "game", moves |-> ds]

\* the texts one edit of the text area can leave: a game with one more move
\* descriptor, a text without a game, an unparsable text or a blank one
PgnEdits(cur) ==
    BadPgns \cup {EmptyPgn}
    \cup (IF cur.kind # "game" THEN {GamePgn(<<>>)}
          ELSE IF Len(cur.moves) < MaxDescs
               THEN {GamePgn(Append(cur.moves, d)) : d \in Descriptors}
               ELSE {})

\* contents of the FEN input, by what Chess.load makes of them: blank, a
\* text it rejects, or the FEN of a position
EmptyFenInput == [kind |-> "empty", fen |-> <<>>]
BadFenInput == [kind |-> "throws", fen |-> <<>>]
FenInput(f) == [kind |-> "fen", fen |-> f]

\* the inputs of the engine-session specification: one bad text and one game
SessionPgns ==
    {[kind |-> "throws", moves |-> <<>>],
     GamePgn(<<[move |-> "e4", comments |-> <<>>]>>)}

----------------------------------------------------------------------------
\* handlePgnImport: the replay loop (lines 484-536)

\* explanation of a recorded move: the first comment, else the generated text
MoveExplanationMutNoComment(pgnMove, prevFen, curFen) ==
    analyzeMoveAndGenerateExplanation(prevFen, curFen, pgnMove.move)
MoveExplanation(pgnMove, prevFen, curFen) ==
    IF Len(pgnMove.comments) > 0
    THEN pgnMove.comments
    ELSE analyzeMoveAndGenerateExplanation(prevFen, curFen, pgnMove.move)

\* lines 516-529: the ChessMove pushed for a descriptor that applied
MoveRecordMutPrevFen(pgnMove, prevFen, curFen) ==
    [from |-> MoveFrom(pgnMove.move), to |-> MoveTo(pgnMove.move),
     san |-> pgnMove.move, fen |-> prevFen,
     explanation |-> MoveExplanation(pgnMove, prevFen, curFen)]
MoveRecord(pgnMove, prevFen, curFen) ==
    [from |-> MoveFrom(pgnMove.move), to |-> MoveTo(pgnMove.move),
     san |-> pgnMove.move, fen |-> curFen,
     explanation |-> MoveExplanation(pgnMove, prevFen, curFen)]

\* the position replayGame holds after trying descriptor pgnMove
ReplayStep(replayGame, pgnMove) ==
    IF pgnMove.move # NoMove /\ IsLegal(replayGame, pgnMove.move)
    THEN ApplyMove(replayGame, pgnMove.move)
    ELSE replayGame

\* whether the descriptor is recorded (not a RAV, and the move applied)
IsRecordedMutNoNullCheck(replayGame, pgnMove) == pgnMove.move # NoMove
IsRecorded(replayGame, pgnMove) ==
    pgnMove.move # NoMove /\ IsLegal(replayGame, pgnMove.move)

RECURSIVE Replay(_, _, _, _)
Replay(descs, replayGame, fenPositions, moveHistoryWithFen) ==
    IF descs = <<>>
    THEN [fenPositions |-> fenPositions, moveHistoryWithFen |-> moveHistoryWithFen]
    ELSE LET pgnMove == Head(descs)
             currentFen_ == ReplayStep(replayGame, pgnMove)
         IN IF IsRecorded(replayGame, pgnMove)
            THEN Replay(Tail(descs), currentFen_,
                        Append(fenPositions, currentFen_),
                        Append(moveHistoryWithFen,
                               MoveRecord(pgnMove, replayGame, currentFen_)))
            ELSE Replay(Tail(descs), currentFen_, fenPositions, moveHistoryWithFen)

\* handleFenImport, lines 1427-1433: the single "move" recorded for an
\* imported position
ImportedPosition(newGameFen) ==
    [from |-> "", to |-> "", san |-> "Imported Position", fen |-> newGameFen,
     explanation |-> <<"This is an imported position from a FEN string.">>]

----------------------------------------------------------------------------
\* The engine worker: directives, searches and the lines it posts

\* lines 277-281: the directives the Stockfish effect posts to a new worker
InitDirectivesMutReadyFirst == <<"isready", "uci", "setoption name MultiPV value 1">>
InitDirectives == <<"uci", "setoption name MultiPV value 1", "isready">>

\* the select's depth options the model exercises (line 978; initial 15, line 168)
Depths == {15, 20}
InitialDepth == 15

\* raw numbers the engine reports in `score cp <n>` and `score mate <n>`
CpValues == {45}
MateValues == {-2}

NoSearch == [fen |-> NoFen, depth |-> 0, searchmoves |-> ""]

\* `position fen <f>` followed by `go depth <d>` (searchmoves <m>)
Search(f, d, m) == [fen |-> f, depth |-> d, searchmoves |-> m]

\* an `info depth ... score <cp|mate> <text>` line; num is <<n>> when the text
\* after the keyword is a number and <<>> when it is not
\* origin and searchmoves say which search posted the line: the text of a
\* line does not, and no handler can read them
InfoLine(score, num, search) ==
    [type |-> "info", score |-> score, num |-> num, move |-> "",
     origin |-> search.fen, searchmoves |-> search.searchmoves]
\* the `bestmove <move>` line that ends a search; on a position without a
\* legal move the engine posts `bestmove (none)`
BestMoveLine(search) ==
    [type |-> "bestmove", score |-> "", num |-> <<>>,
     move |-> IF IsTerminal(search.fen) THEN "(none)" ELSE "best",
     origin |-> search.fen, searchmoves |-> search.searchmoves]

ScoreTexts ==
    {[score |-> "cp", num |-> <<n>>] : n \in CpValues}
    \cup {[score |-> "mate", num |-> <<n>>] : n \in MateValues}
    \cup {[score |-> "cp", num |-> <<>>], [score |-> "mate", num |-> <<>>]}

\* the engine on `stop`: a running search ends with its bestmove line
AfterStop(box, search) ==
    IF search # NoSearch THEN Append(box, BestMoveLine(search)) ELSE box

----------------------------------------------------------------------------
\* The score listener (lines 192-275)

\* line 198: the message is a recognizable score update
IsScoreLine(m) == m.type = "info" /\ m.score \in {"cp", "mate"}

\* lines 227-229 and 255-257: store the number from White's perspective
SideNormalizeMutNoFlip(turn, n) == n
SideNormalize(turn, n) == IF turn = "b" THEN 0 - n ELSE n

\* lines 206, 238 and 267: the Evaluation with an error, the rest kept
ErrorEvaluationMutReset(ev, text) ==
    [score |-> 0, mate |-> <<>>, loading |-> FALSE, error |-> text]
ErrorEvaluation(ev, text) == [ev EXCEPT !.loading = FALSE, !.error = text]

\* what the listener does with message m: the branch it takes
ListenerOutcome(m, cf, hms) ==
    IF ~IsScoreLine(m) THEN "ignored"
    ELSE IF cf = NoFen THEN "nofen"
    ELSE IF m.score = "cp"
         THEN IF ~hms
              THEN IF m.num # <<>> THEN "cp" ELSE "cpMismatch"
              ELSE "suppressed"
         ELSE IF m.num # <<>> THEN "mate" ELSE "mateMismatch"

\* the Evaluation after the listener handled m
ListenerEvaluation(m, ev, cf, hms) ==
    LET outcome == ListenerOutcome(m, cf, hms)
        turn == Turn(cf)
    IN CASE outcome = "ignored" -> ev
         [] outcome = "nofen" ->
              ErrorEvaluation(ev, "Internal: worker.currentFen missing")
         [] outcome = "cp" ->
              [score |-> SideNormalize(turn, m.num[1]), mate |-> <<>>,
               loading |-> FALSE, error |-> ""]
         [] outcome = "cpMismatch" ->
              ErrorEvaluation(ev, "CP regex mismatch")
         [] outcome = "suppressed" -> [ev EXCEPT !.loading = FALSE]
         [] outcome = "mate" ->
              LET mate == SideNormalize(turn, m.num[1])
              IN [score |-> IF mate > 0 THEN 1000 ELSE 0 - 1000, mate |-> <<mate>>,
                  loading |-> FALSE, error |-> ""]
         [] outcome = "mateMismatch" ->
              ErrorEvaluation(ev, "Mate regex mismatch")

\* worker.hasMateScore after the listener handled m (line 250)
ListenerHasMateScore(m, cf, hms) ==
    IF ListenerOutcome(m, cf, hms) = "mate" THEN TRUE ELSE hms

----------------------------------------------------------------------------
\* Effects and the debounced evaluatePosition

\* lastOp is a history variable: an operation called with record set
\* leaves its name and argument in it, any other leaves it alone
Recorded(record, op) == IF record THEN op ELSE lastOp

NoEvaluation == [score |-> 0, mate |-> <<>>, loading |-> FALSE, error |-> ""]

Min(a, b) == IF a < b THEN a ELSE b
Max(a, b) == IF a < b THEN b ELSE a

\* the effects on [fen, stockfish, evaluatePosition] (lines 311-317 and 396-403)
\* after a render that set the displayed position to newFen: both reset
\* hasMateScore and call the same debounced evaluatePosition(newFen), which
\* clears its pending timer and starts a new one
FenEffects(newFen) ==
    IF newFen # fen
    THEN /\ hasMateScore' = FALSE
         /\ timer' = newFen
         /\ sentSinceEval' = 0
    ELSE UNCHANGED <<hasMateScore, timer, sentSinceEval>>

\* the body of the debounced function (lines 300-308), run by a timer that
\* was started for currentFen_ by a debounced function created at depth d
evaluatePositionMutNoTag(currentFen_, d) ==
    /\ evaluation' = [evaluation EXCEPT !.loading = TRUE]
    /\ inbox' = AfterStop(inbox, engSearch)
    /\ engSearch' = Search(currentFen_, d, "")
    /\ currentFen' = currentFen
    /\ goSinceStop' = 1
    /\ sentSinceEval' = Min(sentSinceEval + 1, 2)
    /\ mateSeen' = 0
evaluatePosition(currentFen_, d) ==
    /\ evaluation' = [evaluation EXCEPT !.loading = TRUE]
    /\ inbox' = AfterStop(inbox, engSearch)
    /\ engSearch' = Search(currentFen_, d, "")
    /\ currentFen' = currentFen_
    /\ goSinceStop' = 1
    /\ sentSinceEval' = Min(sentSinceEval + 1, 2)
    /\ mateSeen' = 0

\* a debounce timer expires (line 295).  All timers have the same delay, so
\* they expire in the order they were started: the timers of earlier
\* debounced functions before the timer of the current one
DebounceTimerFires ==
    /\ Len(inbox) <= MaxInbox
    /\ IF orphans # <<>>
       THEN /\ evaluatePosition(Head(orphans).fen, Head(orphans).depth)
            /\ orphans' = Tail(orphans)
            /\ UNCHANGED timer
       ELSE /\ timer # NoFen
            /\ evaluatePosition(timer, engineDepth)
            /\ timer' = NoFen
            /\ UNCHANGED orphans
    /\ UNCHANGED <<timelineVars, engineDepth, hasMateScore, lastOp, pipelineVars>>

\* the depth select's onChange (line 975): useCallback (line 308) makes a new
\* debounced function with its own timer, the timer of the old one stays
\* pending, and the effects run again because evaluatePosition changed
SetEngineDepth(d) ==
    /\ d # engineDepth
    /\ timer = NoFen \/ Len(orphans) < MaxOrphans
    /\ engineDepth' = d
    /\ orphans' = IF timer # NoFen
                  THEN Append(orphans, [fen |-> timer, depth |-> engineDepth])
                  ELSE orphans
    /\ hasMateScore' = FALSE
    /\ timer' = fen
    /\ sentSinceEval' = 0
    /\ UNCHANGED <<timelineVars, evaluation, currentFen, engSearch, inbox,
                   mateSeen, goSinceStop, lastOp, pipelineVars>>

----------------------------------------------------------------------------
\* The engine and the delivery of its lines

\* the engine posts an info line of the running search while fewer than cap
\* lines are in flight
EnginePostsInfo(t, cap) ==
    /\ engSearch # NoSearch
    /\ Len(inbox) < cap
    /\ inbox' = Append(inbox, InfoLine(t.score, t.num, engSearch))
    /\ UNCHANGED <<timelineVars, evaluation, engineDepth, currentFen, hasMateScore,
                   timer, orphans, engSearch, mateSeen, sentSinceEval,
                   goSinceStop, lastOp, pipelineVars>>

\* the running search reaches its depth: the engine posts bestmove
EnginePostsBestMove(cap) ==
    /\ engSearch # NoSearch
    /\ Len(inbox) < cap
    /\ inbox' = Append(inbox, BestMoveLine(engSearch))
    /\ engSearch' = NoSearch
    /\ UNCHANGED <<timelineVars, evaluation, engineDepth, currentFen, hasMateScore,
                   timer, orphans, mateSeen, sentSinceEval, goSinceStop, lastOp,
                   pipelineVars>>

\* the engine posting a line once the component has handled the one before
EngineInfo(t) == EnginePostsInfo(t, MaxInbox)
EngineBestMove == EnginePostsBestMove(MaxInbox)

\* the engine running ahead of the component: it posts a line while earlier
\* ones are still in flight
EngineInfoAhead(t) == EnginePostsInfo(t, MaxAhead)
EngineBestMoveAhead == EnginePostsBestMove(MaxAhead)

----------------------------------------------------------------------------
\* The classification pipeline (lines 1824-2062 and 2117-2186)

\* line 1882 and line 2153
evalDepth == 10
quickDepth == 5

\* lines 1129-1138, in hundredths of a pawn
moveClassifications == [great |-> 20, inaccuracy |-> 100, mistake |-> 200, miss |-> 300]

\* classifier.phase is "off" when no classifyMove call is running, "book"
\* while it awaits checkBookMove, and "best", "bestEval", "moveEval" while
\* handleBestMoveMessage, handleBestEvalMessage, handleMoveEvalMessage is
\* the registered listener; i is moveIndex + 1
NoClassifier == [phase |-> "off", i |-> 0, bestMoveScore |-> 0]
\* quick holds the pre-computation chains that have not ended, oldest first.
\* A chain is "listening" while its handleQuickEval is registered and "timer"
\* while its setTimeout(processNextPosition, 0) is pending; index is its
\* currentIndex + 1 and positions the history of the render its effect ran in
NoQuick == <<>>

\* lines 1844-1850: the position before move i
PrevFen(i) == IF i = 1 THEN history[1] ELSE moveHistory[i - 1].fen

\* line 1854: the book is consulted for moveIndex < 10
BookWindow == 10

\* the moveHistory the pipeline's closure holds: the effect of lines 2117-2147
\* ran in the render after the import, so it is the list the import built
\* from the text it read, which cannot be edited while a game is imported
ClosureMoveHistory ==
    IF importType = "pgn"
    THEN Replay(pgn.moves, InitialFen, <<InitialFen>>, <<>>).moveHistoryWithFen
    ELSE <<ImportedPosition(fenInput.fen)>>

\* line 1915: move.from + move.to, the move the last search is restricted to
\* ("" for the pseudo-move of an imported position, which restricts nothing)
PlayedMove(i) == IF moveHistory[i].from = "" THEN "" ELSE "actual"

\* what the explorer answers (lines 1802-1810): the fetch fails, the response
\* is not OK, the move list is empty, or its first move has a game and an
\* opening name, a game and no opening name, or no game
BookResponses == {"error", "notOk", "empty", "named", "unnamed", "noGame"}
\* the answers that tell a book position from another one
SessionResponses == {"empty", "unnamed"}
\* the answers the explorer can give on the position f: none with a move
\* when the position has no legal move
BookResponsesOn(f) ==
    IF IsTerminal(f) THEN {"error", "notOk", "empty"} ELSE BookResponses

\* checkBookMove (lines 1800-1821): bookName is <<>> when undefined
checkBookMoveMutErrorIsBook(response) ==
    CASE response \in {"error", "notOk"} -> [isBook |-> TRUE, bookName |-> <<>>]
      [] response = "empty" -> [isBook |-> FALSE, bookName |-> <<>>]
      [] response = "named" -> [isBook |-> TRUE, bookName |-> <<"Italian Game">>]
      [] response \in {"unnamed", "noGame"} ->
           [isBook |-> TRUE, bookName |-> <<"Opening Book Move">>]
checkBookMove(response) ==
    CASE response \in {"error", "notOk"} -> [isBook |-> FALSE, bookName |-> <<>>]
      [] response = "empty" -> [isBook |-> FALSE, bookName |-> <<>>]
      [] response = "named" -> [isBook |-> TRUE, bookName |-> <<"Italian Game">>]
      [] response \in {"unnamed", "noGame"} ->
           [isBook |-> TRUE, bookName |-> <<"Opening Book Move">>]

\* line 1862: bookCheck.bookName || 'Opening Book Move'
BookExplanationMutNoName(bookCheck) == <<"Opening Book Move">>
BookExplanation(bookCheck) ==
    IF bookCheck.bookName # <<>> THEN bookCheck.bookName ELSE <<"Opening Book Move">>

\* lines 1935-1964: the class of a played move from the two scores
Classify(isWhiteMove, bestMoveScore, moveScore) ==
    LET scoreDiff == IF isWhiteMove THEN moveScore - bestMoveScore
                     ELSE bestMoveScore - moveScore
        abs == 0 - scoreDiff
    IN IF scoreDiff > 0 THEN "brilliant"
       ELSE IF scoreDiff = 0 THEN "best"
       ELSE IF abs <= moveClassifications.great THEN "great"
       ELSE IF abs <= moveClassifications.inaccuracy THEN "inaccuracy"
       ELSE IF abs <= moveClassifications.mistake THEN "mistake"
       ELSE IF abs <= moveClassifications.miss THEN "miss"
       ELSE "blunder"

\* lines 1858-1864, 1967-1975, 2000-2006, 2029-2035: setMoveHistory with a copy
\* of the moveHistory the pipeline's closure holds, which is the list as
\* imported (no move classified), changed at move i only
WriteClassification(i, class) ==
    [j \in 1 .. Len(moveHistory) |-> IF j = i THEN class ELSE ""]

\* the bestMove fields of the same copy: the engine's best move (line 1895)
\* at move i where the write records it (lines 1972, 2004, 2033), none
\* elsewhere
WriteBestMoveMutNone(i, move) == [j \in 1 .. Len(moveHistory) |-> ""]
WriteBestMove(i, move) ==
    [j \in 1 .. Len(moveHistory) |-> IF j = i THEN move ELSE ""]

\* the same copy with the explanation of move i replaced (lines 1858-1864),
\* and as it is for the writes that keep the explanation (lines 1967-1975)
WriteExplanation(i, explanation) ==
    [j \in 1 .. Len(moveHistory) |->
        IF j = i THEN [ClosureMoveHistory[j] EXCEPT !.explanation = explanation]
        ELSE ClosureMoveHistory[j]]

\* the engine on `position` and `go` while a search may be running: it either
\* ends the running search with its bestmove line (finishes) or drops it
AfterGo(box, search, finishes) ==
    IF search # NoSearch /\ finishes THEN Append(box, BestMoveLine(search)) ELSE box

\* the chains without chain k
WithoutChain(chains, k) ==
    [j \in 1 .. Len(chains) - 1 |-> IF j < k THEN chains[j] ELSE chains[j + 1]]

\* processNextPosition (lines 2156-2181) of chain k of chains, with the lines
\* box not yet handled
processNextPosition(chains, k, box) ==
    IF chains[k].index <= Len(chains[k].positions)
    THEN /\ quick' = [chains EXCEPT ![k].state = "listening"]
         /\ inbox' = AfterStop(box, engSearch)
         /\ engSearch' = Search(chains[k].positions[chains[k].index], quickDepth, "")
         /\ goSinceStop' = 1
    ELSE /\ quick' = WithoutChain(chains, k)
         /\ inbox' = box
         /\ UNCHANGED <<engSearch, goSinceStop>>

\* the effect on [classificationComplete, history.length, stockfish] (lines
\* 2150-2186), run after a render with classificationComplete set in which
\* one of the two has changed and history is positions: a new chain starts
quickEvalEffect(chains, positions, box) ==
    processNextPosition(Append(chains, [state |-> "timer", index |-> 1,
                                        positions |-> positions]),
                        Len(chains) + 1, box)

\* handleQuickEval (lines 2161-2172) of every listening chain on line m
handleQuickEval(chains, m) ==
    [k \in 1 .. Len(chains) |->
        IF m.type = "bestmove" /\ chains[k].state = "listening"
        THEN [chains[k] EXCEPT !.state = "timer", !.index = @ + 1]
        ELSE chains[k]]

\* a listener of the classifyMove call for move i, and the listeners after
\* stockfish.removeEventListener(old) and stockfish.addEventListener(new)
\* (lines 1901 and 2051, 1921 and 2021)
Listener(handler, i) == [handler |-> handler, i |-> i]
SwapListenerMutNoRemove(registered, old, new, i) ==
    registered \cup {Listener(new, i)}
SwapListener(registered, old, new, i) ==
    (registered \ {Listener(old, i)}) \cup {Listener(new, i)}

\* the handler registered in each phase of classifyMove
ListenerOf(phase) ==
    CASE phase = "best" -> "handleBestMoveMessage"
      [] phase = "bestEval" -> "handleBestEvalMessage"
      [] phase = "moveEval" -> "handleMoveEvalMessage"

\* classifyMove(i - 1) from line 1880, with the lines box not yet handled:
\* stop, handleBestMoveMessage registered, position and go (lines 1885, 2056
\* and 2059-2060)
classifyMoveSearch(i, box, registered) ==
    /\ listeners' = registered \cup {Listener("handleBestMoveMessage", i)}
    /\ inbox' = AfterStop(box, engSearch)
    /\ engSearch' = Search(PrevFen(i), evalDepth, "")
    /\ goSinceStop' = 1
    /\ classifier' = [phase |-> "best", i |-> i, bestMoveScore |-> 0]

\* classifyMove(i) has returned or resolved: the loop of lines 2125-2139 goes
\* on to move i + 1, whose classifyMove awaits checkBookMove, or ends, sets
\* classificationComplete (line 2142) and the effect of lines 2150-2186 runs
ClassifyMovesContinue(i, box, chains, registered) ==
    IF i < Len(moveHistory)
    THEN /\ quick' = chains
         /\ UNCHANGED classificationComplete
         /\ IF i + 1 <= BookWindow
            THEN /\ classifier' = [phase |-> "book", i |-> i + 1, bestMoveScore |-> 0]
                 /\ listeners' = registered
                 /\ inbox' = box
                 /\ UNCHANGED <<engSearch, goSinceStop>>
            ELSE classifyMoveSearch(i + 1, box, registered)
    ELSE /\ classifier' = NoClassifier
         /\ listeners' = registered
         /\ classificationComplete' = TRUE
         /\ quickEvalEffect(chains, history, box)

\* the effect on [gameImported, moveHistory.length] (lines 2117-2147) after an
\* import that recorded newMoves: classifyMove(0) runs up to its first await
classifyMovesEffect(newMoves) ==
    IF Len(newMoves) > 0
    THEN /\ classificationComplete' = FALSE
         /\ classifier' = [phase |-> "book", i |-> 1, bestMoveScore |-> 0]
         /\ listeners' = listeners
         /\ classification' = [j \in 1 .. Len(newMoves) |-> ""]
         /\ bestMove' = [j \in 1 .. Len(newMoves) |-> ""]
    ELSE /\ classification' = <<>>
         /\ bestMove' = <<>>
         /\ UNCHANGED <<classifier, listeners, classificationComplete>>

\* the explorer answers response, checkBookMove (lines 1800-1821) returns and
\* classifyMove goes on from line 1856: a book move is written with the
\* explanation of line 1862 and the call returns, any other move starts the
\* first engine round trip (lines 1885, 2056-2060)
checkBookMoveReturns(response, record) ==
    /\ classifier.phase = "book"
    /\ Len(inbox) <= MaxInbox
    /\ response \in BookResponsesOn(PrevFen(classifier.i))
    /\ LET bookCheck == checkBookMove(response)
       IN IF bookCheck.isBook
          THEN /\ classification' = WriteClassification(classifier.i, "book")
               /\ bestMove' = WriteBestMove(classifier.i, "")
               /\ moveHistory' = WriteExplanation(classifier.i, BookExplanation(bookCheck))
               /\ ClassifyMovesContinue(classifier.i, inbox, quick, listeners)
          ELSE /\ classifyMoveSearch(classifier.i, inbox, listeners)
               /\ UNCHANGED <<classification, bestMove, moveHistory,
                              classificationComplete, quick>>
    /\ lastOp' = Recorded(record, [op |-> response, arg |-> classifier.i,
                                    from |-> currentPosition])
    /\ UNCHANGED <<shownVars, evaluation, engineDepth, currentFen, hasMateScore,
                   timer, orphans, mateSeen, sentSinceEval>>

\* the timer of line 2170 of one of the chains expires
QuickTimerFires ==
    /\ Len(inbox) <= MaxInbox
    /\ \E k \in 1 .. Len(quick) :
          /\ quick[k].state = "timer"
          /\ processNextPosition(quick, k, inbox)
    /\ UNCHANGED <<timelineVars, evaluation, engineDepth, currentFen, hasMateScore,
                   timer, orphans, mateSeen, sentSinceEval, lastOp, classifier, listeners,
                   classification, bestMove, classificationComplete>>

\* lines 1891-1895: the line contains `bestmove` and a move follows it
\* (/bestmove\s+(\w+)/ does not match `bestmove (none)`)
IsBestMoveMatch(m) == m.type = "bestmove" /\ m.move # "(none)"

\* handleBestEvalMessage (lines 1907-1922 and 2022) on a score line with the
\* score of the engine's best move: the search restricted to the played move
\* is sent and handleMoveEvalMessage registered
handleBestEvalMessageMutResolves(i, m, box, finishes) ==
    /\ classification' = classification
    /\ bestMove' = bestMove
    /\ moveHistory' = moveHistory
    /\ ClassifyMovesContinue(i, box, handleQuickEval(quick, m), listeners)
handleBestEvalMessage(i, m, box, finishes) ==
    /\ inbox' = AfterGo(box, engSearch, finishes)
    /\ engSearch' = Search(PrevFen(i), evalDepth, PlayedMove(i))
    /\ goSinceStop' = Min(goSinceStop + 1, 2)
    /\ listeners' = SwapListener(listeners, "handleBestEvalMessage",
                                 "handleMoveEvalMessage", i)
    /\ classifier' = [classifier EXCEPT !.phase = "moveEval",
                                        !.bestMoveScore = m.num[1]]
    /\ quick' = handleQuickEval(quick, m)
    /\ UNCHANGED <<classification, bestMove, moveHistory, classificationComplete>>

\* the listeners registered after the score listener handle line m, with the
\* lines box left to handle: the listener of the running classifyMove and the
\* handleQuickEval of every chain
PipelineListeners(m, box, finishes) ==
    LET i == classifier.i
        isCp == m.type = "info" /\ m.score = "cp"
    IN CASE classifier.phase = "best" /\ IsBestMoveMatch(m) ->
              \* handleBestMoveMessage, lines 1891-1902 and 2051
              /\ inbox' = AfterGo(box, engSearch, finishes)
              /\ engSearch' = Search(PrevFen(i), evalDepth, "best")
              /\ goSinceStop' = Min(goSinceStop + 1, 2)
              /\ classifier' = [classifier EXCEPT !.phase = "bestEval"]
              /\ listeners' = SwapListener(listeners, "handleBestMoveMessage",
                                           "handleBestEvalMessage", i)
              /\ quick' = handleQuickEval(quick, m)
              /\ UNCHANGED <<classification, bestMove, moveHistory,
                             classificationComplete>>
         [] classifier.phase = "bestEval" /\ isCp /\ m.num # <<>> ->
              handleBestEvalMessage(i, m, box, finishes)
         [] classifier.phase = "moveEval" /\ isCp /\ m.num # <<>> ->
              \* handleMoveEvalMessage, lines 1926-1992
              /\ classification' =
                    WriteClassification(i, Classify(Turn(PrevFen(i)) = "w",
                                                    classifier.bestMoveScore, m.num[1]))
              /\ bestMove' = WriteBestMove(i, "best")
              /\ moveHistory' = ClosureMoveHistory
              /\ ClassifyMovesContinue(i, box, handleQuickEval(quick, m),
                                       listeners \ {Listener(ListenerOf(classifier.phase), i)})
         [] classifier.phase \in {"bestEval", "moveEval"} /\ m.type = "bestmove" ->
              \* lines 2024-2047 and 1994-2018
              /\ classification' = WriteClassification(i, "best")
              /\ bestMove' = WriteBestMove(i, "best")
              /\ moveHistory' = ClosureMoveHistory
              /\ ClassifyMovesContinue(i, box, handleQuickEval(quick, m),
                                       listeners \ {Listener(ListenerOf(classifier.phase), i)})
         [] OTHER ->
              /\ inbox' = box
              /\ quick' = handleQuickEval(quick, m)
              /\ UNCHANGED <<engSearch, goSinceStop, classifier, listeners,
                             classification, bestMove,
                             moveHistory, classificationComplete>>

\* the worker's message event: the score listener, registered first, and
\* then the pipeline's listeners handle the oldest line
WorkerMessage ==
    /\ inbox # <<>>
    /\ LET m == Head(inbox)
           outcome == ListenerOutcome(m, currentFen, hasMateScore)
       IN /\ evaluation' = ListenerEvaluation(m, evaluation, currentFen, hasMateScore)
          /\ hasMateScore' = ListenerHasMateScore(m, currentFen, hasMateScore)
          /\ mateSeen' = IF outcome = "mate"
                         THEN (IF m.origin = currentFen THEN 2 ELSE Max(mateSeen, 1))
                         ELSE mateSeen
          /\ \E finishes \in (IF classifier.phase \in {"best", "bestEval"}
                                   /\ engSearch # NoSearch
                              THEN BOOLEAN ELSE {TRUE}) :
                 PipelineListeners(m, Tail(inbox), finishes)
    /\ UNCHANGED <<shownVars, engineDepth, currentFen, timer, orphans,
                   sentSinceEval, lastOp>>

----------------------------------------------------------------------------
\* The timeline operations

\* line 417 and 418: the index navigateHistory(index) leaves
NavigatedIndexMutClamp(index, cur, n) ==
    IF index < 0 THEN 0 ELSE IF index >= n THEN n - 1 ELSE index
NavigatedIndex(index, cur, n) ==
    IF index >= 0 /\ index < n THEN index ELSE cur

\* the moves of a render: the ChessMove list and the classification fields
NoMoves == [moveHistory |-> <<>>, classification |-> <<>>]
Rendered == [moveHistory |-> moveHistory, classification |-> classification]

\* the effect on [gameImported, currentPosition, history.length] (lines
\* 1274-1291) after a render that leaves imported, position, positions and
\* moves: when one of the three has changed, handleKeyDown is registered
\* again and closes over the moves of that render
keyDownEffect(imported, position, positions, moves) ==
    keyDown' = IF imported # gameImported \/ position # currentPosition
                     \/ Len(positions) # Len(history)
               THEN moves ELSE keyDown

\* getClassificationText (lines 2073-2097): the label of a class
getClassificationText(class) ==
    CASE class = "book" -> "Book Move:"
      [] class = "best" -> "Best Move:"
      [] class = "great" -> "Great Move:"
      [] class = "brilliant" -> "Brilliant Move:"
      [] class = "inaccuracy" -> "Inaccuracy:"
      [] class = "mistake" -> "Mistake:"
      [] class = "miss" -> "Miss:"
      [] class = "blunder" -> "Blunder:"

\* getMoveExplanationWithClassification (lines 2065-2071) of a move whose
\* classification field is class ("" when it has none)
getMoveExplanationWithClassification(move, class) ==
    IF class = "" THEN move.explanation
    ELSE <<getClassificationText(class)>> \o move.explanation

\* moves[index - 1].classification
ClassificationOf(moves, index) ==
    IF index \in DOMAIN moves.classification THEN moves.classification[index] ELSE ""

\* lines 423-434 and 1337-1348: the explanation shown for position index by
\* a navigateHistory that closes over moves
StoredExplanation(index, moves) ==
    IF index = 0 THEN <<>>
    ELSE IF index - 1 < Len(moves.moveHistory)
         THEN getMoveExplanationWithClassification(moves.moveHistory[index],
                                                   ClassificationOf(moves, index))
    ELSE <<>>

\* navigateHistory (lines 416-436 and 1330-1350) of the render whose moves
\* are moves
navigateHistory(index, op, record, moves) ==
    /\ gameImported
    /\ keyDownEffect(gameImported, NavigatedIndex(index, currentPosition, Len(history)),
                     history, Rendered)
    /\ lastOp' = Recorded(record, [op |-> op, arg |-> index, from |-> currentPosition])
    /\ currentPosition' = NavigatedIndex(index, currentPosition, Len(history))
    /\ IF index >= 0 /\ index < Len(history)
       THEN /\ fen' = history[index + 1]
            /\ currentMoveExplanation' = StoredExplanation(index, moves)
            /\ FenEffects(history[index + 1])
       ELSE UNCHANGED <<fen, currentMoveExplanation, hasMateScore, timer, sentSinceEval>>
    /\ UNCHANGED <<history, moveHistory, pgn, gameImported, evaluation, engineDepth,
                   currentFen, orphans, engSearch, inbox, mateSeen, goSinceStop,
                   pipelineVars, fenInput, importType,
                   mounted, posted>>

\* the buttons and the move table call the functions of the current render
nextMove(record) == navigateHistory(currentPosition + 1, "next", record, Rendered)
prevMove(record) == navigateHistory(currentPosition - 1, "prev", record, Rendered)
goToMove(index, record) == navigateHistory(index + 1, "goto", record, Rendered)

\* handleKeyDown (lines 1274-1291): the arrow keys call prevMove and nextMove
\* of the render the handler was registered in
handleKeyDown(key) ==
    IF key = "ArrowLeft"
    THEN navigateHistory(currentPosition - 1, "prev", FALSE, keyDown)
    ELSE navigateHistory(currentPosition + 1, "next", FALSE, keyDown)

\* the text area's onChange (line 1012), shown while no game is imported
SetPgn(p) ==
    /\ ~gameImported
    /\ p # pgn
    /\ pgn' = p
    /\ UNCHANGED <<history, moveHistory, currentPosition, fen, gameImported,
                   currentMoveExplanation, evaluation, engineDepth, currentFen,
                   hasMateScore, timer, orphans, engSearch, inbox, mateSeen,
                   sentSinceEval, goSinceStop, lastOp, pipelineVars, fenInput,
                   importType, keyDown,
                   mounted, posted>>

\* line 2191: the progress bar is rendered in place of the board, the
\* buttons and the move list
ShowsProgress == gameImported /\ ~classificationComplete

\* the effect on [classificationComplete, history.length, stockfish] after a
\* render in which an event handler has set history to positions and
\* classificationComplete is as before
quickEvalEffectAfter(positions) ==
    IF classificationComplete /\ Len(positions) # Len(history)
    THEN /\ Len(quick) < MaxChains
         /\ quickEvalEffect(quick, positions, inbox)
    ELSE UNCHANGED <<quick, inbox, engSearch, goSinceStop>>

\* lines 456-463: parsePgn throws, or returns no game and the handler throws;
\* either way the catch block of lines 546-549 runs
IsRejectedMutNoLengthCheck(p) == p.kind = "throws"
IsRejected(p) == p.kind # "game"

\* line 542: the index an import leaves, whatever positions it recorded
ImportedIndexMutLast(fenPositions) == Len(fenPositions) - 1
ImportedIndex(fenPositions) == 0

\* handlePgnImport (lines 446-550), the Import button's onClick (enabled
\* while the text area is not blank); with the pipeline mounted, the effects
\* on [gameImported, moveHistory.length] and on [classificationComplete,
\* history.length, stockfish] run after the render
handlePgnImport(record, pipeline) ==
    /\ ~gameImported
    /\ pgn # EmptyPgn
    /\ IF IsRejected(pgn)
       THEN \* the parser throws or returns no game: the catch block alerts
            /\ lastOp' = Recorded(record, [op |-> "importRejected", arg |-> 0,
                                            from |-> currentPosition])
            /\ UNCHANGED <<timelineVars, hasMateScore, timer, sentSinceEval,
                           pipelineVars, engSearch, inbox, goSinceStop>>
       ELSE LET r == Replay(pgn.moves, InitialFen, <<InitialFen>>, <<>>)
            IN /\ history' = r.fenPositions
               /\ moveHistory' = r.moveHistoryWithFen
               /\ currentPosition' = ImportedIndex(r.fenPositions)
               /\ fen' = r.fenPositions[1]
               /\ currentMoveExplanation' = <<>>
               /\ gameImported' = TRUE
               /\ lastOp' = Recorded(record, [op |-> "import", arg |-> 0,
                                               from |-> currentPosition])
               /\ FenEffects(r.fenPositions[1])
               /\ IF pipeline
                  THEN /\ classifyMovesEffect(r.moveHistoryWithFen)
                       /\ quickEvalEffectAfter(r.fenPositions)
                  ELSE UNCHANGED <<pipelineVars, engSearch, inbox, goSinceStop>>
               /\ keyDown' = [moveHistory |-> r.moveHistoryWithFen,
                              classification |-> classification']
               /\ UNCHANGED <<pgn, fenInput, importType,
                              mounted, posted>>
    /\ UNCHANGED <<evaluation, engineDepth, currentFen, orphans, mateSeen>>

\* the FEN input's onChange (line 2380) and the import tab buttons (lines
\* 2335 and 2345), shown while no game is imported
SetFenInput(f) ==
    /\ ~gameImported
    /\ importType = "fen"
    /\ f # fenInput
    /\ fenInput' = f
    /\ UNCHANGED <<history, moveHistory, currentPosition, fen, pgn, gameImported,
                   currentMoveExplanation, evaluation, engineDepth, currentFen,
                   hasMateScore, timer, orphans, engSearch, inbox, mateSeen,
                   sentSinceEval, goSinceStop, lastOp, pipelineVars, importType,
                   keyDown,
                   mounted, posted>>

SetImportType(t) ==
    /\ ~gameImported
    /\ t # importType
    /\ importType' = t
    /\ UNCHANGED <<history, moveHistory, currentPosition, fen, pgn, gameImported,
                   currentMoveExplanation, evaluation, engineDepth, currentFen,
                   hasMateScore, timer, orphans, engSearch, inbox, mateSeen,
                   sentSinceEval, goSinceStop, lastOp, pipelineVars, fenInput,
                   keyDown,
                   mounted, posted>>

\* line 1424: the positions a FEN import records
FenPositions(newGameFen) == <<newGameFen>>

\* handleFenImport (lines 1415-1445), called while the FEN input is not
\* blank (line 2401), with the effects that run after the render
handleFenImport(record, pipeline) ==
    /\ ~gameImported
    /\ fenInput # EmptyFenInput
    /\ IF fenInput.kind = "throws"
       THEN \* newGame.load throws: the catch block alerts
            /\ lastOp' = Recorded(record, [op |-> "importRejected", arg |-> 0,
                                            from |-> currentPosition])
            /\ UNCHANGED <<timelineVars, hasMateScore, timer, sentSinceEval,
                           pipelineVars, engSearch, inbox, goSinceStop>>
       ELSE LET newGameFen == fenInput.fen
                fenPositions == FenPositions(newGameFen)
                moveHistoryWithFen == <<ImportedPosition(newGameFen)>>
            IN /\ history' = fenPositions
               /\ moveHistory' = moveHistoryWithFen
               /\ currentPosition' = 0
               /\ fen' = newGameFen
               /\ currentMoveExplanation' = moveHistoryWithFen[1].explanation
               /\ gameImported' = TRUE
               /\ lastOp' = Recorded(record, [op |-> "importFen", arg |-> 0,
                                               from |-> currentPosition])
               /\ FenEffects(newGameFen)
               /\ IF pipeline
                  THEN /\ classifyMovesEffect(moveHistoryWithFen)
                       /\ quickEvalEffectAfter(fenPositions)
                  ELSE UNCHANGED <<pipelineVars, engSearch, inbox, goSinceStop>>
               /\ keyDown' = [moveHistory |-> moveHistoryWithFen,
                              classification |-> classification']
               /\ UNCHANGED <<pgn, fenInput, importType,
                              mounted, posted>>
    /\ UNCHANGED <<evaluation, engineDepth, currentFen, orphans, mateSeen>>

\* handleImport (lines 1447-1452), the Import button's onClick
handleImport(record, pipeline) ==
    IF importType = "pgn"
    THEN handlePgnImport(record, pipeline)
    ELSE handleFenImport(record, pipeline)

\* the effect on [game] (lines 344-354), run after the render in which
\* history is renderHistory: the history it leaves and the index it sets
GameEffectHistoryMutAppend(prev, gameFen) == Append(prev, gameFen)
GameEffectHistory(prev, gameFen) ==
    IF Len(prev) = 0 \/ prev[Len(prev)] # gameFen THEN Append(prev, gameFen) ELSE prev
GameEffectPosition(renderHistory) == Len(renderHistory)

\* resetBoard (lines 405-414), the New Game button's onClick, with the
\* effect on [game] that its setGame triggers; with the pipeline mounted the
\* button is not rendered under the progress bar, the moves and with them
\* their classifications are dropped, and the effect on
\* [classificationComplete, history.length, stockfish] runs after the render
resetBoard(record, pipeline) ==
    /\ gameImported
    /\ pipeline => ~ShowsProgress
    /\ LET newGameFen == InitialFen
           renderHistory == <<newGameFen>>
       IN /\ history' = GameEffectHistory(renderHistory, newGameFen)
          /\ currentPosition' = GameEffectPosition(renderHistory)
          /\ fen' = newGameFen
          /\ FenEffects(newGameFen)
    /\ pgn' = EmptyPgn
    /\ gameImported' = FALSE
    /\ moveHistory' = <<>>
    /\ evaluation' = NoEvaluation
    /\ lastOp' = Recorded(record, [op |-> "reset", arg |-> 0, from |-> currentPosition])
    /\ IF pipeline
       THEN /\ classification' = <<>>
            /\ bestMove' = <<>>
            /\ quickEvalEffectAfter(<<InitialFen>>)
            /\ UNCHANGED <<classifier, listeners, classificationComplete>>
       ELSE UNCHANGED <<pipelineVars, engSearch, inbox, goSinceStop>>
    /\ keyDown' = [moveHistory |-> <<>>, classification |-> classification']
    /\ UNCHANGED <<currentMoveExplanation, engineDepth, currentFen, orphans, mateSeen,
                   fenInput, importType,
                   mounted, posted>>

----------------------------------------------------------------------------
\* The state after mount: the [game] effect has put the initial position in
\* history, the worker exists with currentFen = null, and the effects on
\* [fen, stockfish, evaluatePosition] have started the first debounce timer

Init ==
    /\ history = <<InitialFen>>
    /\ moveHistory = <<>>
    /\ currentPosition = 0
    /\ fen = InitialFen
    /\ pgn = EmptyPgn
    /\ fenInput = EmptyFenInput
    /\ importType = "pgn"
    /\ keyDown = NoMoves
    /\ gameImported = FALSE
    /\ currentMoveExplanation = <<>>
    /\ evaluation = NoEvaluation
    /\ engineDepth = InitialDepth
    /\ currentFen = NoFen
    /\ hasMateScore = FALSE
    /\ timer = InitialFen
    /\ orphans = <<>>
    /\ engSearch = NoSearch
    /\ inbox = <<>>
    /\ mateSeen = 0
    /\ sentSinceEval = 0
    /\ goSinceStop = 0
    /\ lastOp = [op |-> "mount", arg |-> 0, from |-> 0]
    /\ mounted = "mounted"
    /\ posted = InitDirectives
    /\ classifier = NoClassifier
    /\ listeners = {}
    /\ classification = <<>>
    /\ bestMove = <<>>
    /\ classificationComplete = FALSE
    /\ quick = NoQuick

\* move indices a click on the move table can pass to goToMove, and two
\* outside the table
GoToArgs == -2 .. MaxDescs

\* the component with its engine session
Next ==
    \/ \E p \in SessionPgns : SetPgn(p)
    \/ handlePgnImport(FALSE, FALSE)
    \/ resetBoard(FALSE, FALSE)
    \/ nextMove(FALSE)
    \/ prevMove(FALSE)
    \/ \E i \in GoToArgs : goToMove(i, FALSE)
    \/ \E d \in Depths : SetEngineDepth(d)
    \/ DebounceTimerFires
    \/ \E t \in ScoreTexts : EngineInfo(t)
    \/ EngineBestMove
    \/ WorkerMessage

Spec == Init /\ [][Next]_vars

\* the timeline alone, over every PGN text of up to MaxDescs move descriptors
NextTimeline ==
    \/ \E p \in PgnEdits(pgn) : SetPgn(p)
    \/ handlePgnImport(TRUE, FALSE)
    \/ resetBoard(TRUE, FALSE)
    \/ nextMove(TRUE)
    \/ prevMove(TRUE)
    \/ \E i \in GoToArgs : goToMove(i, TRUE)

SpecTimeline == Init /\ [][NextTimeline]_vars

\* the Previous and Next buttons (lines 2259-2272), not rendered under the
\* progress bar
NavigationButton ==
    /\ ~ShowsProgress
    /\ (nextMove(FALSE) \/ prevMove(FALSE))

\* the component with the classification pipeline mounted: one import, the
\* navigation by the arrow keys and by the buttons, the live evaluation and
\* the pipeline
NextPipeline ==
    \/ \E p \in SessionPgns : SetPgn(p)
    \/ handlePgnImport(FALSE, TRUE)
    \/ \E key \in {"ArrowLeft", "ArrowRight"} : handleKeyDown(key)
    \/ NavigationButton
    \/ DebounceTimerFires
    \/ \E t \in ScoreTexts : EngineInfo(t)
    \/ EngineBestMove
    \/ WorkerMessage
    \/ \E response \in SessionResponses : checkBookMoveReturns(response, FALSE)
    \/ QuickTimerFires

SpecPipeline == Init /\ [][NextPipeline]_vars

\* raw centipawn numbers of the two searchmoves searches of classifyMove
ClassifyScores == {-350, -100, -20, -5, 0, 45, 350}
ClassifyTexts == {[score |-> "cp", num |-> <<n>>] : n \in ClassifyScores}

\* the two-move game the classifier is exercised on: White's move, Black's move
ClassifyPgn == GamePgn(<<[move |-> "e4", comments |-> <<>>],
                         [move |-> "Nf3", comments |-> <<>>]>>)

\* classifyMove(i - 1) with handleMoveEvalMessage registered (line 1921), the
\* score bestMoveScore of the engine's best move in its closure, and the first
\* score line of the search restricted to the played move not yet handled;
\* the live evaluation of the initial position was requested before, and a
\* move before move i was classified by the book or by a bestmove line
InitClassify ==
    /\ pgn = ClassifyPgn
    /\ LET r == Replay(pgn.moves, InitialFen, <<InitialFen>>, <<>>)
       IN /\ history = r.fenPositions
          /\ moveHistory = r.moveHistoryWithFen
    /\ currentPosition = 0
    /\ fen = InitialFen
    /\ fenInput = EmptyFenInput
    /\ importType = "pgn"
    /\ keyDown = [moveHistory |-> moveHistory,
                  classification |-> [j \in 1 .. Len(moveHistory) |-> ""]]
    /\ gameImported = TRUE
    /\ currentMoveExplanation = <<>>
    /\ evaluation = [NoEvaluation EXCEPT !.loading = TRUE]
    /\ engineDepth = InitialDepth
    /\ currentFen = InitialFen
    /\ hasMateScore = FALSE
    /\ timer = NoFen
    /\ orphans = <<>>
    /\ mateSeen = 0
    /\ sentSinceEval = 1
    /\ goSinceStop = 2
    /\ lastOp = [op |-> "mount", arg |-> 0, from |-> 0]
    /\ mounted = "mounted"
    /\ posted = InitDirectives
    /\ classificationComplete = FALSE
    /\ quick = NoQuick
    /\ \E i \in 1 .. Len(moveHistory), bestMoveScore \in ClassifyScores,
          moveScore \in ClassifyScores, earlier \in {"book", "best"} :
          /\ classifier = [phase |-> "moveEval", i |-> i, bestMoveScore |-> bestMoveScore]
          /\ listeners = {Listener("handleMoveEvalMessage", i)}
          /\ classification = [j \in 1 .. Len(moveHistory) |-> IF j < i THEN earlier ELSE ""]
          /\ bestMove = [j \in 1 .. Len(moveHistory) |->
                            IF j < i /\ earlier = "best" THEN "best" ELSE ""]
          /\ engSearch = Search(PrevFen(i), evalDepth, PlayedMove(i))
          /\ inbox = <<InfoLine("cp", <<moveScore>>, engSearch)>>

\* the classifier applied to the two scores, and the pipeline going on
NextClassify ==
    \/ WorkerMessage
    \/ \E response \in SessionResponses : checkBookMoveReturns(response, FALSE)
    \/ \E t \in ClassifyTexts : EngineInfo(t)
    \/ EngineBestMove
    \/ QuickTimerFires

SpecClassify == InitClassify /\ [][NextClassify]_vars

\* the component with the classification pipeline mounted, over New Game and
\* a second import: the two-move game, the live evaluation of the displayed
\* position, the pipeline and the pre-computation chains
RestartTexts == {[score |-> "cp", num |-> <<n>>] : n \in CpValues}
NextRestart ==
    \/ SetPgn(ClassifyPgn)
    \/ handlePgnImport(FALSE, TRUE)
    \/ resetBoard(FALSE, TRUE)
    \/ DebounceTimerFires
    \/ \E t \in RestartTexts : EngineInfo(t)
    \/ EngineBestMove
    \/ WorkerMessage
    \/ \E response \in SessionResponses : checkBookMoveReturns(response, FALSE)
    \/ QuickTimerFires

SpecRestart == Init /\ [][NextRestart]_vars

\* a game with one move more than the book is consulted for
BookPgn ==
    GamePgn([j \in 1 .. BookWindow + 1 |->
                [move |-> IF j % 2 = 1 THEN "e4" ELSE "Nf3", comments |-> <<>>]])

\* the component with the classification pipeline mounted on that game, over
\* every answer of the explorer, with the live evaluation and the engine
NextBook ==
    \/ SetPgn(BookPgn)
    \/ handlePgnImport(FALSE, TRUE)
    \/ \E response \in BookResponses : checkBookMoveReturns(response, TRUE)
    \/ DebounceTimerFires
    \/ \E t \in RestartTexts : EngineInfo(t)
    \/ EngineBestMove
    \/ WorkerMessage
    \/ QuickTimerFires

SpecBook == Init /\ [][NextBook]_vars

\* the state after mount once the live evaluation of the initial position
\* has ended: the debounce timer has expired, the engine has searched, and
\* the score listener has handled its lines
InitProtocol ==
    /\ history = <<InitialFen>>
    /\ moveHistory = <<>>
    /\ currentPosition = 0
    /\ fen = InitialFen
    /\ pgn = EmptyPgn
    /\ fenInput = EmptyFenInput
    /\ importType = "pgn"
    /\ keyDown = NoMoves
    /\ gameImported = FALSE
    /\ currentMoveExplanation = <<>>
    /\ \E n \in CpValues :
          evaluation = [score |-> n, mate |-> <<>>, loading |-> FALSE, error |-> ""]
    /\ engineDepth = InitialDepth
    /\ currentFen = InitialFen
    /\ hasMateScore = FALSE
    /\ timer = NoFen
    /\ orphans = <<>>
    /\ engSearch = NoSearch
    /\ inbox = <<>>
    /\ mateSeen = 0
    /\ sentSinceEval = 1
    /\ goSinceStop = 1
    /\ lastOp = [op |-> "mount", arg |-> 0, from |-> 0]
    /\ mounted = "mounted"
    /\ posted = InitDirectives
    /\ classifier = NoClassifier
    /\ listeners = {}
    /\ classification = <<>>
    /\ bestMove = <<>>
    /\ classificationComplete = FALSE
    /\ quick = NoQuick

\* raw centipawn numbers of successive score lines of one search
ProtocolTexts == {[score |-> "cp", num |-> <<n>>] : n \in {20, 45}}

\* the engine protocol of classifyMove on the two-move game, with the engine
\* free to post the lines of a search faster than the component handles them
NextProtocol ==
    \/ SetPgn(ClassifyPgn)
    \/ handlePgnImport(FALSE, TRUE)
    \/ \E response \in SessionResponses : checkBookMoveReturns(response, FALSE)
    \/ \E t \in ProtocolTexts : EngineInfoAhead(t)
    \/ EngineBestMoveAhead
    \/ WorkerMessage
    \/ QuickTimerFires

SpecProtocol == InitProtocol /\ [][NextProtocol]_vars

\* the FEN inputs of the position-import specification: a text Chess.load
\* rejects, the position after 1. e4 and a position in which White is mated
FenInputs == {BadFenInput, FenInput(<<"e4">>), FenInput(MatedFen)}

\* the component with the classification pipeline mounted, over one import
\* of a game or of a position, with the explorer and the engine
NextFen ==
    \/ SetPgn(GamePgn(<<[move |-> "e4", comments |-> <<>>]>>))
    \/ \E t \in {"pgn", "fen"} : SetImportType(t)
    \/ \E f \in FenInputs : SetFenInput(f)
    \/ handleImport(FALSE, TRUE)
    \/ DebounceTimerFires
    \/ \E t \in RestartTexts : EngineInfo(t)
    \/ EngineBestMove
    \/ WorkerMessage
    \/ \E response \in SessionResponses : checkBookMoveReturns(response, FALSE)
    \/ QuickTimerFires

SpecFen == Init /\ [][NextFen]_vars

\* move descriptors of the explanation specification
ExplainDescriptors ==
    [move : TacticalSans \cup {"e4", IllegalSan}, comments : Comments]

\* the replay loop of handlePgnImport (lines 486-534) at a middlegame
\* position with two descriptors left: history and moveHistory hold the
\* loop's fenPositions and moveHistoryWithFen, pgn the descriptors left
InitExplain ==
    /\ \E replayGame \in {Middlegame, Append(Middlegame, "e4")} :
           history = <<replayGame>>
    /\ \E a, b \in ExplainDescriptors : pgn = GamePgn(<<a, b>>)
    /\ moveHistory = <<>>
    /\ currentPosition = 0
    /\ fen = InitialFen
    /\ fenInput = EmptyFenInput
    /\ importType = "pgn"
    /\ keyDown = NoMoves
    /\ gameImported = FALSE
    /\ currentMoveExplanation = <<>>
    /\ evaluation = NoEvaluation
    /\ engineDepth = InitialDepth
    /\ currentFen = NoFen
    /\ hasMateScore = FALSE
    /\ timer = InitialFen
    /\ orphans = <<>>
    /\ engSearch = NoSearch
    /\ inbox = <<>>
    /\ mateSeen = 0
    /\ sentSinceEval = 0
    /\ goSinceStop = 0
    /\ lastOp = [op |-> "mount", arg |-> 0, from |-> 0]
    /\ mounted = "mounted"
    /\ posted = InitDirectives
    /\ classifier = NoClassifier
    /\ listeners = {}
    /\ classification = <<>>
    /\ bestMove = <<>>
    /\ classificationComplete = FALSE
    /\ quick = NoQuick

\* one iteration of the replay loop (lines 487-534)
ReplayIteration ==
    /\ pgn.kind = "game"
    /\ pgn.moves # <<>>
    /\ LET r == Replay(<<Head(pgn.moves)>>, history[Len(history)], history,
                       moveHistory)
       IN /\ history' = r.fenPositions
          /\ moveHistory' = r.moveHistoryWithFen
    /\ pgn' = GamePgn(Tail(pgn.moves))
    /\ UNCHANGED <<currentPosition, fen, gameImported, currentMoveExplanation,
                   evaluation, engineDepth, currentFen, hasMateScore, timer,
                   orphans, engSearch, inbox, mateSeen, sentSinceEval,
                   goSinceStop, lastOp, pipelineVars, fenInput, importType,
                   keyDown,
                   mounted, posted>>

SpecExplain == InitExplain /\ [][ReplayIteration]_vars

\* the FEN inputs of the mate-score specification: Black to move after
\* 1. e4, White mated and Black mated (the initial position, with White to
\* move, is evaluated at mount)
MateFenInputs == {FenInput(<<"e4">>), FenInput(MatedFen), FenInput(BlackMatedFen)}

\* the `score mate <n>` lines of a search: mate 0 on a position in which the
\* side to move is mated, a mate for or against the side to move elsewhere
MateTexts(f) ==
    IF IsTerminal(f)
    THEN {[score |-> "mate", num |-> <<0>>]}
    ELSE {[score |-> "mate", num |-> <<n>>] : n \in {-2, 3}}

\* the engine posts a mate score of the search it is running
EngineInfoMate == \E t \in MateTexts(engSearch.fen) : EngineInfo(t)

\* the component with the classification pipeline mounted, over one import
\* of a position, with an engine that reports mate scores
NextMate ==
    \/ \E t \in {"pgn", "fen"} : SetImportType(t)
    \/ \E f \in MateFenInputs : SetFenInput(f)
    \/ handleImport(FALSE, TRUE)
    \/ DebounceTimerFires
    \/ EngineInfoMate
    \/ EngineBestMove
    \/ WorkerMessage
    \/ \E response \in SessionResponses : checkBookMoveReturns(response, FALSE)
    \/ QuickTimerFires

SpecMate == Init /\ [][NextMate]_vars

\* the component after its first render, before the effects have run: no
\* worker yet, and the debounced evaluatePosition does nothing (line 301)
InitLifecycle ==
    /\ history = <<InitialFen>>
    /\ moveHistory = <<>>
    /\ currentPosition = 0
    /\ fen = InitialFen
    /\ pgn = EmptyPgn
    /\ fenInput = EmptyFenInput
    /\ importType = "pgn"
    /\ keyDown = NoMoves
    /\ gameImported = FALSE
    /\ currentMoveExplanation = <<>>
    /\ evaluation = NoEvaluation
    /\ engineDepth = InitialDepth
    /\ currentFen = NoFen
    /\ hasMateScore = FALSE
    /\ timer = NoFen
    /\ orphans = <<>>
    /\ engSearch = NoSearch
    /\ inbox = <<>>
    /\ mateSeen = 0
    /\ sentSinceEval = 0
    /\ goSinceStop = 0
    /\ lastOp = [op |-> "mount", arg |-> 0, from |-> 0]
    /\ mounted = "rendered"
    /\ posted = <<>>
    /\ classifier = NoClassifier
    /\ listeners = {}
    /\ classification = <<>>
    /\ bestMove = <<>>
    /\ classificationComplete = FALSE
    /\ quick = NoQuick

\* the Stockfish effect of the first render (lines 178-282): the worker is
\* created, tagged and configured, setStockfish renders again, and the
\* effect on [fen, stockfish, evaluatePosition] (lines 311-317) calls the
\* new debounced evaluatePosition(fen)
StockfishEffect ==
    /\ mounted = "rendered"
    /\ mounted' = "mounted"
    /\ currentFen' = NoFen
    /\ hasMateScore' = FALSE
    /\ posted' = posted \o InitDirectives
    /\ timer' = fen
    /\ UNCHANGED <<history, moveHistory, currentPosition, fen, pgn, gameImported,
                   currentMoveExplanation, evaluation, engineDepth, orphans,
                   engSearch, inbox, mateSeen, sentSinceEval, goSinceStop, lastOp,
                   pipelineVars, fenInput, importType, keyDown>>

\* the stockfish the cleanup of lines 283-287 reads: the effect has no
\* dependencies, so the cleanup is the one of the first render, whose
\* stockfish is the initial state of line 166
CleanupStockfish == "null"

\* the component unmounts: the cleanup of the Stockfish effect runs (lines
\* 283-287); no cleanup clears the debounce timer or removes the worker's
\* listener
Unmount ==
    /\ mounted = "mounted"
    /\ mounted' = "unmounted"
    /\ IF CleanupStockfish # "null"
       THEN /\ posted' = Append(posted, "quit")
            /\ engSearch' = NoSearch
       ELSE UNCHANGED <<posted, engSearch>>
    /\ UNCHANGED <<history, moveHistory, currentPosition, fen, pgn, gameImported,
                   currentMoveExplanation, evaluation, engineDepth, currentFen,
                   hasMateScore, timer, orphans, inbox, mateSeen, sentSinceEval,
                   goSinceStop, lastOp, pipelineVars, fenInput, importType,
                   keyDown>>

\* the handlers of the rendered page, which exist while it is mounted
MountedSetPgn == mounted = "mounted" /\ \E p \in SessionPgns : SetPgn(p)
MountedImport == mounted = "mounted" /\ handlePgnImport(FALSE, FALSE)
MountedNavigation == mounted = "mounted" /\ (nextMove(FALSE) \/ prevMove(FALSE))
MountedSetEngineDepth == mounted = "mounted" /\ \E d \in Depths : SetEngineDepth(d)

\* the component from its first render to after its unmount, with the
\* timers and the worker, which outlive it
NextLifecycle ==
    \/ StockfishEffect
    \/ Unmount
    \/ MountedSetPgn
    \/ MountedImport
    \/ MountedNavigation
    \/ MountedSetEngineDepth
    \/ DebounceTimerFires
    \/ \E t \in RestartTexts : EngineInfo(t)
    \/ EngineBestMove
    \/ WorkerMessage

SpecLifecycle == InitLifecycle /\ [][NextLifecycle]_vars

----------------------------------------------------------------------------
\* Properties

\* the step is the listener handling the oldest line
IsWorkerMessage == inbox # <<>> /\ inbox' = Tail(inbox)
\* the branch the listener takes on that line
Handled == ListenerOutcome(Head(inbox), currentFen, hasMateScore)
\* the number after `score cp` / `score mate` in that line
RawScore == Head(inbox).num[1]
\* last index of the timeline
LastIndex == Len(history) - 1

\* C1: no Evaluation is delivered from a score line that a search on another
\* FEN than the current target produced (late lines of the old target are
\* discarded).
C1_NoStaleDelivery ==
    [][(IsWorkerMessage /\ Handled \in {"cp", "mate"})
          => Head(inbox).origin = currentFen]_vars

\* C2: after the latest evaluate call at most one position/go pair is sent,
\* and it is for the FEN of that call (the displayed position).
C2_OnePairForLatest ==
    /\ sentSinceEval <= 1
    /\ sentSinceEval = 1 => currentFen = fen

\* C3: every position/go pair sent to the engine, by the live evaluation or
\* by any phase of the classification pipeline, comes after a stop sent after
\* the previous go: no two pairs are sent without a stop between them.
C3_StopBeforeEveryPair == goSinceStop <= 1

\* C4: once a mate line of the current target's own search was handled, a
\* later cp line handled for the same target leaves score and mate unchanged.
C4_MatePriority ==
    [][(IsWorkerMessage /\ mateSeen = 2 /\ Head(inbox).type = "info"
            /\ Head(inbox).score = "cp")
          => (evaluation'.score = evaluation.score
                /\ evaluation'.mate = evaluation.mate)]_vars

\* C5: a well-formed cp line of the current target's search is delivered
\* unless a mate line was handled since that target was issued to the engine.
C5_NoCarryOver ==
    [][(IsWorkerMessage /\ currentFen # NoFen /\ mateSeen = 0
            /\ Head(inbox).type = "info" /\ Head(inbox).score = "cp"
            /\ Head(inbox).num # <<>> /\ Head(inbox).origin = currentFen)
          => (evaluation'.mate = <<>>
                /\ evaluation'.score =
                     (IF Turn(currentFen) = "b" THEN 0 - RawScore ELSE RawScore))]_vars

\* C6: a delivered centipawn Evaluation has score = raw when the target's
\* side to move is White and -raw when it is Black (in hundredths of a
\* pawn), and a delivered mate count is negated exactly for Black to move.
C6_SideNormalization ==
    [][IsWorkerMessage =>
          /\ Handled = "cp" =>
                /\ evaluation'.mate = <<>>
                /\ Turn(currentFen) = "w" => evaluation'.score = RawScore
                /\ Turn(currentFen) = "b" => evaluation'.score = 0 - RawScore
          /\ Handled = "mate" =>
                /\ Turn(currentFen) = "w" => evaluation'.mate = <<RawScore>>
                /\ Turn(currentFen) = "b" => evaluation'.mate = <<0 - RawScore>>]_vars

\* C6 witness: a centipawn score delivered for a Black-to-move target
C6_Witness ==
    /\ evaluation.score = 0 - 45
    /\ evaluation.mate = <<>>
    /\ ~evaluation.loading
    /\ Turn(currentFen) = "b"

\* the Evaluation keeps score and mate, has an error and is not loading
ErrorDelivered ==
    /\ evaluation'.error # ""
    /\ ~evaluation'.loading
    /\ evaluation'.score = evaluation.score
    /\ evaluation'.mate = evaluation.mate

\* C7: a score line handled without a tracked target, or one whose number
\* does not parse, yields an Evaluation with error set, loading false and
\* score and mate kept; a well-formed line delivered later has no error.
C7_ErrorOnBadLine ==
    [][IsWorkerMessage =>
          /\ (IsScoreLine(Head(inbox)) /\ (currentFen = NoFen \/ Head(inbox).num = <<>>))
                => ErrorDelivered
          /\ Handled \in {"cp", "mate"} => evaluation'.error = ""]_vars

\* C7 as amended: the same, except that a cp line handled while a mate
\* score is held for a tracked target is ignored, malformed or not.
C7_ErrorOnBadLineAmended ==
    [][IsWorkerMessage =>
          /\ (/\ IsScoreLine(Head(inbox))
              /\ currentFen = NoFen \/ Head(inbox).num = <<>>
              /\ ~(currentFen # NoFen /\ Head(inbox).score = "cp" /\ hasMateScore))
                => ErrorDelivered
          /\ (/\ IsScoreLine(Head(inbox))
              /\ currentFen # NoFen /\ Head(inbox).score = "cp" /\ hasMateScore)
                => (evaluation'.score = evaluation.score
                      /\ evaluation'.mate = evaluation.mate
                      /\ evaluation'.error = evaluation.error)
          /\ Handled \in {"cp", "mate"} => evaluation'.error = ""]_vars

\* C7 witness: a malformed cp line left an error on a kept centipawn score
C7_Witness ==
    /\ evaluation.error = "CP regex mismatch"
    /\ evaluation.score = 45
    /\ evaluation.mate = <<>>
    /\ ~evaluation.loading

\* re-applying the recorded moves from a position
RECURSIVE ReplayMoves(_, _)
ReplayMoves(pos, moves) ==
    IF moves = <<>> THEN pos
    ELSE ReplayMoves(ApplyMove(pos, Head(moves).san), Tail(moves))

\* C8: after a successful import len(history) = len(moveHistory) + 1, each
\* history[i+1] is the result of applying moveHistory[i] to history[i] and
\* is moveHistory[i].fen, and replaying all moves from history[0] gives the
\* last position (indices from 1 here).
C8_ReplayInvariant ==
    gameImported =>
        /\ Len(history) = Len(moveHistory) + 1
        /\ \A i \in 1 .. Len(moveHistory) :
              /\ i + 1 <= Len(history)
              /\ moveHistory[i].fen = history[i + 1]
              /\ IsLegal(history[i], moveHistory[i].san)
              /\ ApplyMove(history[i], moveHistory[i].san) = history[i + 1]
        /\ ReplayMoves(history[1], moveHistory) = history[Len(history)]

\* C8 witness: an import of three descriptors whose middle one was skipped
C8_Witness ==
    /\ gameImported
    /\ Len(pgn.moves) = 3
    /\ pgn.moves[2].move = IllegalSan
    /\ Len(moveHistory) = 2
    /\ Len(history) = 3

\* C9: the navigation index is always within 0 .. len(history) - 1.
C9_IndexInRange == 0 <= currentPosition /\ currentPosition <= LastIndex

\* the index nearest to i within 0 .. LastIndex
Clamp(i) == Max(0, Min(i, LastIndex))

\* C10: next and prev move the index by one, clamped to 0 .. N, goto(i)
\* inside the range sets the index to i, and goto(i) outside the range moves
\* the index to the nearest bound.
C10_Clamped ==
    /\ lastOp.op = "next" => currentPosition = Min(lastOp.from + 1, LastIndex)
    /\ lastOp.op = "prev" => currentPosition = Max(lastOp.from - 1, 0)
    /\ lastOp.op = "goto" => currentPosition = Clamp(lastOp.arg)

\* C10 as amended: goto(i) outside the range leaves the index where it was.
C10_ClampedAmended ==
    /\ lastOp.op = "next" => currentPosition = Min(lastOp.from + 1, LastIndex)
    /\ lastOp.op = "prev" => currentPosition = Max(lastOp.from - 1, 0)
    /\ lastOp.op = "goto" =>
          currentPosition = (IF 0 <= lastOp.arg /\ lastOp.arg <= LastIndex
                             THEN lastOp.arg ELSE lastOp.from)

\* C10 witness: a goto beyond the last index from an index below it
C10_Witness ==
    /\ lastOp.op = "goto"
    /\ lastOp.arg > LastIndex
    /\ lastOp.from < LastIndex
    /\ currentPosition = lastOp.from

\* the step is a navigation that moved the index (an import sets
\* gameImported, a reset clears it)
IsNavigation == gameImported /\ gameImported' /\ currentPosition' # currentPosition

\* C11: every navigation transition re-requests the live evaluation of the
\* position at the resulting index: after it the debounce timer is pending
\* for history[currentPosition], and no earlier request is still pending.
C11_NavigationReRequests ==
    [][IsNavigation =>
          /\ timer' = history'[currentPosition' + 1]
          /\ orphans' = <<>>]_vars

\* the step is the New Game button's click
IsReset == gameImported /\ ~gameImported'

\* C12: a reset leaves a timeline of exactly one position, the standard
\* initial position, and no moves, displays that position, clears
\* gameImported and resets the Evaluation to score 0, no mate, not loading.
C12_Reset ==
    [][IsReset =>
          /\ history' = <<InitialFen>>
          /\ moveHistory' = <<>>
          /\ fen' = InitialFen
          /\ ~gameImported'
          /\ evaluation'.score = 0
          /\ evaluation'.mate = <<>>
          /\ ~evaluation'.loading]_vars

\* C12 witness: a reset at index 0 of an imported game (the index is 1 while
\* no game is imported only after a reset) after the engine was sent a request
C12_Witness ==
    /\ ~gameImported
    /\ currentPosition = 1
    /\ history = <<InitialFen>>
    /\ moveHistory = <<>>
    /\ evaluation = NoEvaluation
    /\ currentFen # NoFen

\* C13: after a successful import the index is 0, the displayed position is
\* history[0] and the explanation is empty; an import of a game without
\* moves leaves one position and no move.
C13_ImportAnchored ==
    lastOp.op = "import" =>
        /\ currentPosition = 0
        /\ fen = history[1]
        /\ currentMoveExplanation = <<>>
        /\ pgn.moves = <<>> => (Len(history) = 1 /\ Len(moveHistory) = 0)

\* C13 witness: a game without moves imported after a reset had left index 1
C13_Witness ==
    /\ lastOp.op = "import"
    /\ lastOp.from = 1
    /\ pgn.moves = <<>>
    /\ currentPosition = 0

\* descriptor k of the PGN text is the only one the rules collaborator
\* cannot apply, and it is neither the first nor the last
OnlyMiddleFails(k) ==
    /\ 1 < k /\ k < Len(pgn.moves)
    /\ pgn.moves[k].move = IllegalSan
    /\ \A j \in 1 .. Len(pgn.moves) : j # k => pgn.moves[j].move \in LegalSans

\* the step is a click on Import
IsImportAttempt == lastOp' # lastOp /\ lastOp'.op \in {"import", "importRejected"}

\* C14: when exactly one descriptor in the middle of the list cannot be
\* applied and all others apply, the import is not rejected, the failing
\* descriptor is skipped and the other descriptors are recorded in order.
C14_MiddleSkipped ==
    [][(/\ IsImportAttempt
        /\ pgn.kind = "game"
        /\ \E k \in 1 .. Len(pgn.moves) : OnlyMiddleFails(k))
          => /\ lastOp'.op = "import"
             /\ gameImported'
             /\ Len(moveHistory') = Len(pgn.moves) - 1
             /\ Len(history') = Len(pgn.moves)
             /\ \A k \in 1 .. Len(pgn.moves) : OnlyMiddleFails(k) =>
                   \A j \in 1 .. Len(moveHistory') :
                      moveHistory'[j].san = pgn.moves[IF j < k THEN j ELSE j + 1].move]_vars

\* C14 witness: three descriptors imported, the second one illegal and
\* skipped, the third one recorded as move 2
C14_Witness ==
    /\ lastOp.op = "import"
    /\ Len(pgn.moves) = 3
    /\ OnlyMiddleFails(2)
    /\ Len(moveHistory) = 2
    /\ moveHistory[2].san = pgn.moves[3].move

\* C15: when the PGN text cannot be parsed (the parser throws or returns no
\* game) the import is rejected and history, moveHistory, currentPosition,
\* the displayed position, the explanation and gameImported stay as they were.
C15_RejectedUnchanged ==
    [][(IsImportAttempt /\ pgn.kind \in {"throws", "nogames"}) =>
          /\ lastOp'.op = "importRejected"
          /\ history' = history
          /\ moveHistory' = moveHistory
          /\ currentPosition' = currentPosition
          /\ fen' = fen
          /\ currentMoveExplanation' = currentMoveExplanation
          /\ gameImported' = gameImported]_vars

\* C15 witness: a text without games rejected after a reset had left an
\* explanation and index 1
C15_Witness ==
    /\ lastOp.op = "importRejected"
    /\ pgn.kind = "nogames"
    /\ lastOp.from = 1
    /\ currentPosition = 1
    /\ currentMoveExplanation # <<>>
    /\ ~gameImported

\* the step is handleMoveEvalMessage handling a score line of the search
\* restricted to the played move
IsMoveEval ==
    /\ IsWorkerMessage
    /\ classifier.phase = "moveEval"
    /\ Head(inbox).type = "info" /\ Head(inbox).score = "cp" /\ Head(inbox).num # <<>>
\* the loss of the played move in hundredths of a pawn: both searches are on
\* the position before the move, so both scores are the mover's
Loss == Max(0, classifier.bestMoveScore - RawScore)
\* the class the step writes for the move
WrittenClass == classification'[classifier.i]

\* C16: a move that loses 0.05 pawns against the engine's best move is
\* classified best, whatever the state of the game before and after it.
C16_SmallLossIsBest ==
    [][(IsMoveEval /\ Loss = 5) => WrittenClass = "best"]_vars

\* C17: a move that loses 3.5 pawns from a winning position (3 pawns or more
\* for the mover) is classified mistake: not brilliant, not miss, not blunder.
C17_LargeLossIsMistake ==
    [][(IsMoveEval /\ Loss = 350 /\ classifier.bestMoveScore >= 300)
          => WrittenClass = "mistake"]_vars

\* C18: for White's and Black's moves alike, a played move that scores
\* strictly worse for the mover than the engine's best move is never
\* classified brilliant or best, and the class is the one the same two scores
\* give a mover of the other colour.
C18_LossFromMoversPerspective ==
    [][(IsMoveEval /\ RawScore < classifier.bestMoveScore) =>
          /\ WrittenClass \notin {"brilliant", "best"}
          /\ WrittenClass = Classify(Turn(PrevFen(classifier.i)) # "w",
                                     classifier.bestMoveScore, RawScore)]_vars

\* the step begins the classification of a move: classifyMove is called for
\* a move other than the one being classified, or while none is
ClassificationBegins ==
    classifier'.phase # "off" /\ (classifier.phase = "off" \/ classifier'.i # classifier.i)
\* the step sends position and go of one of classifyMove's searches
IsClassifierSearch == engSearch' # engSearch /\ engSearch'.depth = evalDepth

C20_ClassificationsKept ==
    [][(gameImported /\ gameImported') =>
          \A j \in 1 .. Len(classification) :
             classification[j] # "" => classification'[j] = classification[j]]_vars

\* the step is the debounced evaluatePosition running (a timer expires)
IsEvaluate == (timer # NoFen /\ timer' = NoFen) \/ Len(orphans') < Len(orphans)

\* C25: every live evaluate request that reaches the engine ends in a final
\* Evaluation: once the engine has ended the search with its bestmove line
\* and every line it posted was handled, with or without score lines before
\* the bestmove, loading is false.
C25_SearchEndsLoading ==
    (engSearch = NoSearch /\ inbox = <<>>) => ~evaluation.loading

\* C26: navigation only looks up stored annotations: after navigating to
\* index i > 0 the displayed explanation is the one stored in
\* moveHistory[i-1], after navigating to index 0 it is empty, and the
\* navigation modifies neither history nor moveHistory.
C26_NavigationLooksUp ==
    [][IsNavigation =>
          /\ currentMoveExplanation' =
                (IF currentPosition' = 0 THEN <<>>
                 ELSE moveHistory[currentPosition'].explanation)
          /\ history' = history
          /\ moveHistory' = moveHistory
          /\ classification' = classification]_vars

\* the line handled in the step was posted by the search (f, moves)
HandledFrom(f, moves) ==
    Head(inbox).origin = f /\ Head(inbox).searchmoves = moves
\* the step is handleBestEvalMessage / handleMoveEvalMessage taking the score
\* of the line it handles
TakesBestScore == IsWorkerMessage /\ classifier.phase = "bestEval"
                     /\ classifier'.phase = "moveEval"
TakesMoveScore == IsMoveEval

\* C24: for every move classified by the engine the directives are issued in
\* this order, all on the pre-move position and all with the same depth: an
\* unrestricted search, then, once the bestmove reply of that search was
\* received, the search restricted to the best move, then, once a reply of
\* that search was received, the search restricted to the played move.
C24_ProtocolOrder ==
    [][/\ IsClassifierSearch =>
             /\ engSearch'.fen = PrevFen(classifier'.i)
             /\ \/ classifier'.phase = "best" /\ engSearch'.searchmoves = ""
                \/ /\ classifier.phase = "best" /\ classifier'.phase = "bestEval"
                   /\ engSearch'.searchmoves = "best"
                \/ /\ classifier.phase = "bestEval" /\ classifier'.phase = "moveEval"
                   /\ engSearch'.searchmoves = PlayedMove(classifier.i)
       /\ (classifier.phase = "best" /\ classifier'.phase = "bestEval") =>
             /\ Head(inbox).type = "bestmove"
             /\ HandledFrom(PrevFen(classifier.i), "")
       /\ TakesBestScore => HandledFrom(PrevFen(classifier.i), "best")]_vars

\* C27: the played-move score recorded for a move is taken from a score line
\* of the search restricted to the played move, and the best-move score from
\* a score line of the search restricted to the best move: a score line of
\* an earlier search of the protocol is never taken by a later phase.
C27_ScoresFromOwnSearch ==
    [][/\ TakesBestScore => Head(inbox).searchmoves = "best"
       /\ TakesMoveScore =>
             HandledFrom(PrevFen(classifier.i), PlayedMove(classifier.i))]_vars

\* C29: the best-move score and the played-move score are the scores the
\* engine reported at the requested depth: the score line a handler takes is
\* the last one of its search, the line the search's bestmove follows.
C29_ScoresAtRequestedDepth ==
    [][(TakesBestScore \/ TakesMoveScore) =>
          /\ Len(inbox) >= 2
          /\ inbox[2].type = "bestmove"
          /\ inbox[2].origin = Head(inbox).origin
          /\ inbox[2].searchmoves = Head(inbox).searchmoves]_vars

\* the step is classifyMove going on after its book lookup, whose answer the
\* step leaves in lastOp
IsBookAnswer == classifier.phase = "book" /\ classifier' # classifier

\* C22: for a move with index < 10 whose pre-move position the lookup reports
\* as book, the move is classified book, its explanation records the opening
\* name, and classifyMove returns without an engine directive for that move;
\* for a move with index >= 10 the lookup is never consulted.
C22_BookMoves ==
    [][/\ (IsBookAnswer /\ lastOp'.op \in {"named", "unnamed", "noGame"}) =>
             /\ classifier.i <= BookWindow
             /\ classification'[classifier.i] = "book"
             /\ moveHistory'[classifier.i].explanation =
                   (IF lastOp'.op = "named" THEN <<"Italian Game">>
                    ELSE <<"Opening Book Move">>)
             /\ classifier'.i # classifier.i
             /\ \/ engSearch' = engSearch /\ inbox' = inbox
                \/ engSearch'.fen # PrevFen(classifier.i)
                \/ engSearch'.depth # evalDepth
       /\ classifier'.phase = "book" => classifier'.i <= BookWindow
       /\ (classifier'.i > BookWindow /\ classifier'.i # classifier.i) =>
             /\ classifier'.phase = "best"
             /\ engSearch' = Search(PrevFen(classifier'.i), evalDepth, "")]_vars

\* C22 witness: the lookup reported move 10 as a book move with an opening
\* name, and classifyMove of move 11 has sent its first search
C22_Witness ==
    /\ lastOp.op = "named"
    /\ lastOp.arg = BookWindow
    /\ classifier.i = BookWindow + 1
    /\ classifier.phase = "best"
    /\ classification[BookWindow] = "book"
    /\ moveHistory[BookWindow].explanation = <<"Italian Game">>

\* C23: a failed book lookup (network error or non-OK response) and a lookup
\* returning an empty move list are both treated as not-book: nothing is
\* written for the move, and classifyMove goes on to the engine search for
\* that same move.
C23_FailedLookupIsNotBook ==
    [][(IsBookAnswer /\ lastOp'.op \in {"error", "notOk", "empty"}) =>
          /\ classification' = classification
          /\ moveHistory' = moveHistory
          /\ classifier' = [phase |-> "best", i |-> classifier.i, bestMoveScore |-> 0]
          /\ engSearch' = Search(PrevFen(classifier.i), evalDepth, "")
          /\ ~classificationComplete']_vars

\* C23 witness: the lookup of move 2 failed and the move's first search runs
C23_Witness ==
    /\ lastOp.op \in {"error", "notOk"}
    /\ lastOp.arg = 2
    /\ classifier = [phase |-> "best", i |-> 2, bestMoveScore |-> 0]
    /\ engSearch = Search(PrevFen(2), evalDepth, "")
    /\ classification[2] = ""

\* nothing is pending that could still call a listener or a callback: no
\* book lookup is awaited, the engine is idle, every line it posted was
\* handled and no timer runs
Quiescent ==
    /\ classifier.phase # "book"
    /\ engSearch = NoSearch
    /\ inbox = <<>>
    /\ timer = NoFen
    /\ orphans = <<>>
    /\ \A k \in 1 .. Len(quick) : quick[k].state # "timer"

\* C21: the pipeline never stalls on one move: when the engine answers a
\* classification search with a line the handlers do not accept (a bestmove
\* line without a move), the move is left unclassified and the pipeline
\* advances, so it is never left waiting for the engine with nothing pending
\* and classificationComplete unset.
C21_NeverStalls ==
    (gameImported /\ Quiescent) => (classifier.phase = "off" /\ classificationComplete)

\* C30: in every state with a game imported, by PGN import or by FEN import,
\* len(history) = len(moveHistory) + 1 and moveHistory[i].fen = history[i+1]
\* for all i, so the pre-move position the pipeline uses for move i is the
\* position the move was played from.
C30_TimelineShape ==
    gameImported =>
       /\ Len(history) = Len(moveHistory) + 1
       /\ \A i \in 1 .. Len(moveHistory) :
             /\ i + 1 \in DOMAIN history
             /\ moveHistory[i].fen = history[i + 1]

\* a listener of classifyMove is registered and waits for the engine
ClassifierListens == classifier.phase \in {"best", "bestEval", "moveEval"}

\* C28: while a classification search is in flight the live evaluation sends
\* no stop / position / go to the engine.
C28_NoLiveDirectiveWhileClassifying ==
    [][ClassifierListens => ~IsEvaluate]_vars

\* C31: the current-target tag worker.currentFen is written only by
\* evaluatePosition when it issues a request, to the FEN of the position
\* directive it sends; it is null until the first request, and the handling
\* of an engine message leaves it alone, so whenever a message is processed
\* it is the FEN of the most recent position directive sent by evaluate.
C31_TagSingleWriter ==
    [][/\ currentFen' # currentFen => IsEvaluate
       /\ IsEvaluate => (currentFen' # NoFen /\ currentFen' = engSearch'.fen)
       /\ IsWorkerMessage => currentFen' = currentFen
       /\ goSinceStop = 0 => currentFen = NoFen]_vars

\* C31 witness: a line of an earlier search is about to be processed while
\* the tag is the position of a later request
C31_Witness ==
    /\ inbox # <<>>
    /\ currentFen \notin {NoFen, InitialFen}
    /\ Head(inbox).origin # currentFen
    /\ engSearch.fen = currentFen

\* C32: a burst of evaluate requests within one debounce window sends at
\* most one position/go pair, also when the burst includes a change of
\* engineDepth: a timer left pending by the previous debounced function
\* never fires a request.
C32_OrphanTimerNeverFires ==
    [][IsEvaluate => orphans' = orphans]_vars

\* the branch of the explanation generator a generated text comes from, in
\* the order of lines 630-684
BranchOf(text) ==
    IF text = <<"Checkmate! The game is over.">> THEN 1
    ELSE IF text[1] = "Pawn promotion!" THEN 2
    ELSE IF text[2] \in {"castles kingside", "castles queenside"} THEN 3
    ELSE IF text[2] = "wins material!" THEN 4
    ELSE IF text[2] = "creates a fork!" THEN 5
    ELSE IF text[2] \in {"creates a pin!", "creates a skewer!",
                         "launches a discovered attack!"} THEN 6
    ELSE IF text[2] = "captures" THEN 7
    ELSE IF text[2] = "gives check to the" THEN 8
    ELSE 9

\* the condition of each branch, for the move san from fromGame to toGame
BranchHolds(branch, fromGame, toGame, san) ==
    CASE branch = 1 -> isCheckmate(toGame)
      [] branch = 2 -> isPromotion(san)
      [] branch = 3 -> isCastle(san)
      [] branch = 4 -> calculateMaterial(toGame).white - calculateMaterial(toGame).black
                       # calculateMaterial(fromGame).white - calculateMaterial(fromGame).black
      [] branch = 5 -> checkForFork(toGame)
      [] branch = 6 -> FALSE
      [] branch = 7 -> isCapture(san)
      [] branch = 8 -> inCheck(toGame)
      [] branch = 9 -> TRUE

\* the recorded moves whose explanation is the generator's text
Generated ==
    {k \in 1 .. Len(moveHistory) :
        /\ Len(history) = Len(moveHistory) + 1
        /\ moveHistory[k].explanation \notin Comments
        /\ moveHistory[k].san # "Imported Position"}

\* C33: the explanation generator is a first-hit priority chain: checkmate,
\* promotion, castling, material swing, knight fork, pin / skewer /
\* discovered attack (never), capture, check, per-piece fallback; the text
\* returned is that of the first condition that holds
C33_FirstHitChain ==
    \A k \in Generated :
        LET branch == BranchOf(moveHistory[k].explanation)
        IN /\ BranchHolds(branch, history[k], history[k + 1], moveHistory[k].san)
           /\ \A higher \in 1 .. branch - 1 :
                  ~BranchHolds(higher, history[k], history[k + 1], moveHistory[k].san)
           /\ branch # 6

\* C33 witness: a knight move that forks is explained as a fork, and the
\* castling move that answers it, made while the fork stands, as castling
C33_Witness ==
    /\ \E k \in Generated : BranchOf(moveHistory[k].explanation) = 5
    /\ \E k \in Generated :
           /\ checkForFork(history[k + 1])
           /\ BranchOf(moveHistory[k].explanation) = 3

\* the side to move of a position, by name
SideToMove(game) == IF Turn(game) = "w" THEN "White" ELSE "Black"

\* C36: a generated explanation that names an actor (promotes, castles,
\* creates a fork, captures, gives check, per-piece texts) names the side
\* that made the move, and the king in check is the other side's
C36_NamesTheMover ==
    \A k \in Generated :
        LET text == moveHistory[k].explanation
            branch == BranchOf(text)
        IN /\ branch = 2 => text[2] = SideToMove(history[k])
           /\ branch \in {3, 5, 7, 8, 9} => text[1] = SideToMove(history[k])
           /\ branch = 8 => text[3] = SideToMove(history[k + 1])

\* the descriptors of a PGN text that replayGame.move() applies
AppliedDescriptors(p) == SelectSeq(p.moves, LAMBDA d : d.move \in LegalSans)

IsOwnMateLine ==
    /\ IsWorkerMessage
    /\ Handled = "mate"
    /\ Head(inbox).origin = currentFen

\* C35: for every processed `score mate n` line, n = 0 included, the
\* delivered Evaluation has mate n in White's orientation, and score +10
\* exactly when White is the side delivering mate (White to move and n > 0,
\* or Black to move and n <= 0) and -10 exactly when Black is
C35_MateScoreSign ==
    [][IsOwnMateLine =>
          LET whiteMates == IF Turn(currentFen) = "w" THEN RawScore > 0
                            ELSE RawScore <= 0
          IN /\ evaluation'.mate =
                   <<IF Turn(currentFen) = "w" THEN RawScore ELSE 0 - RawScore>>
             /\ evaluation'.score = IF whiteMates THEN 1000 ELSE 0 - 1000]_vars

\* handleBestEvalMessage or handleMoveEvalMessage handles a bestmove line:
\* no `score cp` line of the restricted search was accepted before it
IsScorelessBestMove ==
    /\ IsWorkerMessage
    /\ classifier.phase \in {"bestEval", "moveEval"}
    /\ Head(inbox).type = "bestmove"

\* C37: when a restricted search of classifyMove ends with its bestmove line
\* before a `score cp` line was accepted, the move is classified `best` with
\* the engine's best move recorded, the listener is removed and the pipeline
\* goes on to the next move (or completes after the last)
C37_ScorelessSearchIsBest ==
    [][IsScorelessBestMove =>
          /\ classification'[classifier.i] = "best"
          /\ bestMove'[classifier.i] = "best"
          /\ IF classifier.i < Len(moveHistory)
             THEN /\ classifier'.i = classifier.i + 1
                  /\ classifier'.phase \in {"book", "best"}
                  /\ ~classificationComplete'
             ELSE /\ classifier' = NoClassifier
                  /\ classificationComplete']_vars

\* C37 witness: a mate score has been handled, the search restricted to the
\* engine's best move has ended without an accepted `score cp` line, and its
\* bestmove line is the next to be handled
C37_Witness ==
    /\ classifier.phase = "bestEval"
    /\ hasMateScore
    /\ inbox # <<>>
    /\ Head(inbox).type = "bestmove"
    /\ Head(inbox).origin = PrevFen(classifier.i)
    /\ Head(inbox).searchmoves = "best"
    /\ classification[classifier.i] = ""

\* C38: once the component has unmounted after the worker was created, a
\* `quit` directive has been posted to the worker, and no uci / setoption /
\* isready / quit directive after it
C38_QuitOnDispose ==
    mounted = "unmounted" => (posted # <<>> /\ posted[Len(posted)] = "quit")

\* a step that sends stop, position and go to the worker
SendsSearch ==
    \/ IsEvaluate
    \/ engSearch' \notin {engSearch, NoSearch}
    \/ goSinceStop' > goSinceStop

\* C39: uci, setoption name MultiPV value 1 and isready are posted in that
\* order and once, and no stop / position / go is sent before them
C39_ConfiguredBeforeSearch ==
    [][/\ SendsSearch =>
             /\ Len(posted) >= 3
             /\ SubSeq(posted, 1, 3) = <<"uci", "setoption name MultiPV value 1", "isready">>
       /\ \A k \in 1 .. Len(posted') :
             /\ k <= 3 => posted'[k] = <<"uci", "setoption name MultiPV value 1",
                                         "isready">>[k]
             /\ k > 3 => posted'[k] = "quit"]_vars

\* C39 witness: the worker was configured by the Stockfish effect and the
\* debounced evaluation has since sent a search
C39_Witness ==
    /\ posted = <<"uci", "setoption name MultiPV value 1", "isready">>
    /\ engSearch # NoSearch
    /\ currentFen # NoFen
    /\ goSinceStop > 0

\* C40: in a pipeline run at most one of handleBestMoveMessage,
\* handleBestEvalMessage and handleMoveEvalMessage is registered on the
\* worker at any time, it belongs to the classifyMove call that is running,
\* and once classifyMove has resolved (the loop awaits the next move's book
\* lookup, or has ended) none is registered
C40_OneClassificationListener ==
    /\ Cardinality(listeners) <= 1
    /\ \A l \in listeners : l.i = classifier.i
    /\ classifier.phase \in {"off", "book"} => listeners = {}

\* C40 witness: classifyMove of the first move has resolved and the call for
\* the second move has swapped its listeners twice
C40_Witness ==
    /\ classifier.i = 2
    /\ classifier.phase = "moveEval"
    /\ listeners = {Listener("handleMoveEvalMessage", 2)}

====
